---- MODULE Spec2Model ----
(***************************************************************************)
(* A model of the PDF table extractor: the marker store of the session     *)
(* object (working column/row markers, undo history, per-page records),    *)
(* page navigation and zoom, the grid assignment of text fragments and the *)
(* merge of per-page grids.                                                *)
(*                                                                         *)
(* Python lists are objects: after update_page_display has loaded a saved  *)
(* record, app.column_markers and app.row_markers ARE the lists held by    *)
(* page_markers[current_page].  markers_shared records that identity, and  *)
(* every in-place mutation (append, sort, remove) of a shared list is      *)
(* written through to the record.                                          *)
(*                                                                         *)
(* A string is modelled as the sequence of its characters.                 *)
(***************************************************************************)
EXTENDS Integers, Sequences, FiniteSets

\* ------------------------------------------------------------- bounds
\* Pages of the largest document opened.
NumPages == 2
\* Document-space x coordinates are 0..MaxX, y coordinates 0..MaxY.
MaxX == 2
MaxY == 2
\* The coordinates clicked, selected and loaded in the page-navigation
\* specification are 0..SessionMaxX and 0..SessionMaxY.
SessionMaxX == 1
SessionMaxY == 0
\* The undo history is unbounded in the code; additions stop at this length.
MaxHist == 2
\* zoom_factor is 1.2^e (or 0.1 * 1.2^e); zooming in stops at e = MaxZoomIn,
\* zooming out at e = -MaxZoomOut.
MaxZoomIn == 1
MaxZoomOut == 0
\* Detected interior lines per axis handed to apply_detected_lines.
MaxDetected == 1

Pages == 0..(NumPages - 1)
XCoords == 0..MaxX
YCoords == 0..MaxY
SessionXs == 0..SessionMaxX
SessionYs == 0..SessionMaxY

\* ------------------------------------------------------------ helpers
Range(s) == {s[i] : i \in 1..Len(s)}

SeqsUpTo(S, n) == UNION {[1..k -> S] : k \in 0..n}

Max(S) == CHOOSE m \in S : \A k \in S : k <= m

Min(S) == CHOOSE m \in S : \A k \in S : m <= k

\* list.sort() / sorted(): ascending, duplicates kept.
RECURSIVE Sorted(_)
Sorted(s) ==
  IF s = <<>> THEN <<>>
  ELSE LET m == Min(Range(s))
           i == CHOOSE k \in 1..Len(s) : s[k] = m /\ \A j \in 1..(k - 1) : s[j] # m
       IN <<m>> \o Sorted(SubSeq(s, 1, i - 1) \o SubSeq(s, i + 1, Len(s)))

\* list.remove(v): drops the first occurrence; ValueError (caught by the
\* caller) when v is absent, which leaves the list as it was.
ListRemove(s, v) ==
  IF v \in Range(s)
  THEN LET i == CHOOSE k \in 1..Len(s) : s[k] = v /\ \A j \in 1..(k - 1) : s[j] # v
       IN SubSeq(s, 1, i - 1) \o SubSeq(s, i + 1, Len(s))
  ELSE s

\* list.append(v) guarded by "v not in list".
AppendNew(s, v) == IF v \in Range(s) THEN s ELSE Append(s, v)

IsStrictlyAscending(s) == \A i \in 1..(Len(s) - 1) : s[i] < s[i + 1]

\* The strictly ascending lists over S: what marker clicks build.
AscendingLists(S) == {Sorted(q) : q \in {p \in SeqsUpTo(S, Cardinality(S)) :
                                            Cardinality(Range(p)) = Len(p)}}

\* ------------------------------------------------------------- state
VARIABLES
  pdf_document,     \* TRUE once a PDF is loaded (app.pdf_document is not None)
  total_pages,
  current_page,
  zoom_factor,      \* <<b, e>>: b/1000 * 1.2^e
  column_markers,   \* app.column_markers, the working set
  row_markers,
  selection_mode,   \* "none" | "column" | "row"
  marker_history,   \* list of [type, value]
  page_markers,     \* dict page index -> [columns, rows]
  markers_shared,   \* the working lists are page_markers[current_page]'s lists
  pdf_pages,        \* page index -> [readable, spans]: what page.get_text gives
  text_page,        \* the spans of the current page's text, in reading order
  extraction_mode,  \* TableExtractor.extraction_mode: "unset" | "space" | "newline"
  table_data,       \* app.table_data
  page_table,       \* the grid returned by _extract_table_data
  all_tables,       \* the per-page grids handed to a merge
  merged_table,     \* the grid a merge returns
  selection,        \* app.selection_start and selection_end, put in order
  processed_image,  \* AreaProcessor.processed_image: the cropped rendering
  detected_vertical_lines,    \* AreaProcessor.detected_vertical_lines
  detected_horizontal_lines,  \* AreaProcessor.detected_horizontal_lines
  detection_error,  \* process_selected_area ended in its error dialog
  original_table_data,     \* the corrector's backup of table_data; <<>> for None
  all_pages_manual_data,   \* dict page index -> manually entered grid
  config_file,      \* the file written by save_all_page_markers
  csv_file,         \* the text of the delimited file last exported
  manual_mode_active,  \* ManualInputManager.manual_mode_active
  current_cell,        \* (row, column), counted from 0
  manual_table_data,   \* the grid being typed; <<>> for None
  cell_coordinates,    \* per cell (left, top, right, bottom); <<>> for None
  cell_text_entry,     \* the entry box: whether it exists, and its text
  canvas_button_1,     \* the handler bound to <Button-1> on the canvas
  manual_data_shared,  \* the pages whose stored grid is the list object
                       \* manual_table_data
  table_data_rows      \* per row of table_data the list object it is: <<>> a
                       \* row of its own, <<j>> row j of manual_table_data,
                       \* <<p, j>> row j of all_pages_manual_data[p]

vars == <<pdf_document, total_pages, current_page, zoom_factor, column_markers,
          row_markers, selection_mode, marker_history, page_markers,
          markers_shared, pdf_pages, text_page, extraction_mode, table_data,
          page_table, all_tables, merged_table, selection, processed_image,
          detected_vertical_lines, detected_horizontal_lines, detection_error,
          original_table_data, all_pages_manual_data, config_file, csv_file,
          manual_mode_active, current_cell, manual_table_data,
          cell_coordinates, cell_text_entry, canvas_button_1,
          manual_data_shared, table_data_rows>>

sessionVars == <<pdf_document, total_pages, current_page, zoom_factor,
                 column_markers, row_markers, selection_mode, marker_history,
                 page_markers, markers_shared>>

gridVars == <<pdf_pages, text_page, extraction_mode, table_data, page_table>>

mergeVars == <<all_tables, merged_table>>

lineVars == <<selection, processed_image, detected_vertical_lines,
              detected_horizontal_lines, detection_error>>

orientVars == <<original_table_data>>

\* The manual input session, but for the grids it shares with others.
manualSession == <<manual_mode_active, current_cell, cell_coordinates,
                   cell_text_entry, canvas_button_1, manual_data_shared>>

manualVars == <<manualSession, manual_table_data, table_data_rows>>

configVars == <<all_pages_manual_data, config_file, csv_file, manualVars>>

NoPageMarkers == [p \in {} |-> [columns |-> <<>>, rows |-> <<>>]]

\* ManualInputManager.__init__: all_pages_manual_data = {}
NoManualData == [p \in {} |-> <<>>]

\* No configuration file has been written.
NoConfig ==
  [written |-> FALSE, with_page_markers |-> FALSE,
   page_markers |-> [k \in {} |-> [columns |-> <<>>, rows |-> <<>>]],
   manual_data |-> [k \in {} |-> <<>>],
   with_markers |-> FALSE, column_markers |-> <<>>, row_markers |-> <<>>,
   page |-> <<>>]

\* The constructors of the corrector and of the manual input manager: no
\* backup, no manual data; and no configuration file yet.
\* The entry box before _create_input_interface and after
\* _cleanup_manual_input: cell_text_entry = None.
NoEntry == [made |-> FALSE, text |-> <<>>]

\* ManualInputManager.__init__, and the canvas as create_main_area binds it.
FreshManualInput ==
  /\ manual_mode_active = FALSE
  /\ current_cell = <<0, 0>>
  /\ manual_table_data = <<>>
  /\ cell_coordinates = <<>>
  /\ cell_text_entry = NoEntry
  /\ canvas_button_1 = "main_area"
  /\ manual_data_shared = {}
  /\ table_data_rows = <<>>

FreshManagers ==
  /\ original_table_data = <<>>
  /\ all_pages_manual_data = NoManualData
  /\ config_file = NoConfig
  /\ csv_file = <<>>
  /\ FreshManualInput

\* What a handler that binds app.table_data to a list of its own leaves as it
\* was.
manualFrame == <<all_pages_manual_data, config_file, csv_file, manualSession,
                 manual_table_data>>

\* The list object that row i of table_data is.
RowTag(tags, i) == IF i <= Len(tags) THEN tags[i] ELSE <<>>

\* The row that is the list object tag after the cells of table_data were
\* assigned, table being table_data afterwards: old where table_data does not
\* hold that object.
row_written(table, tags, tag, old) ==
  IF \E i \in 1..Len(table) : RowTag(tags, i) = tag
  THEN table[CHOOSE i \in 1..Len(table) : RowTag(tags, i) = tag]
  ELSE old

\* "self.app.table_data[row_idx][col_idx] = corrected_text" for the cells in
\* which table differs from table_data: the rows are written where they are,
\* so a row that is also a row of a stored grid or of manual_table_data is
\* written there too.
assign_cells(table) ==
  /\ table_data' = table
  /\ all_pages_manual_data' =
       [p \in DOMAIN all_pages_manual_data |->
          [j \in 1..Len(all_pages_manual_data[p]) |->
             row_written(table, table_data_rows, <<p, j>>,
                         all_pages_manual_data[p][j])]]
  /\ manual_table_data' =
       [j \in 1..Len(manual_table_data) |->
          IF manual_data_shared = {}
          THEN row_written(table, table_data_rows, <<j>>, manual_table_data[j])
          ELSE row_written(table, table_data_rows,
                           <<CHOOSE p \in manual_data_shared : TRUE, j>>,
                           manual_table_data[j])]
  /\ UNCHANGED <<config_file, csv_file, manualSession, table_data_rows>>

\* The tags of the rows of table_data after the stored grids of pages were
\* replaced by other list objects.
rows_unstored(tags, pages, shared) ==
  [i \in 1..Len(tags) |->
     IF Len(tags[i]) = 2 /\ tags[i][1] \in pages
     THEN (IF tags[i][1] \in shared THEN <<tags[i][2]>> ELSE <<>>)
     ELSE tags[i]]

\* The grid when the text of the entry box is dropped.
saved_cell_content_dropped(grid, active, entry, cell) == grid

\* ManualInputManager._save_current_cell_content: the grid after the text of
\* the entry box was written into the current cell.
saved_cell_content(grid, active, entry, cell) ==
  IF ~active \/ ~entry.made THEN grid
  ELSE IF /\ 0 <= cell[1] /\ cell[1] < Len(grid)
          /\ 0 <= cell[2] /\ cell[2] < Len(grid[1])
       THEN [grid EXCEPT ![cell[1] + 1][cell[2] + 1] = entry.text]
       ELSE grid

\* all_pages_manual_data[page] = grid
stored_grid(md, page, grid) ==
  [p \in DOMAIN md \cup {page} |-> IF p = page THEN grid ELSE md[p]]

\* The stored grids and table_data once manual_table_data was written and is
\* grid: a stored grid that is the same list is grid too, and so are the rows
\* of table_data that are its rows.
shared_grids(md, shared, grid) ==
  [p \in DOMAIN md |-> IF p \in shared THEN grid ELSE md[p]]

shared_rows(table, tags, shared, grid) ==
  [i \in 1..Len(table) |->
     LET tag == RowTag(tags, i)
     IN IF Len(tag) = 1 THEN grid[tag[1]]
        ELSE IF Len(tag) = 2 /\ tag[1] \in shared THEN grid[tag[2]]
        ELSE table[i]]

\* "_save_current_cell_content()" followed by "all_pages_manual_data[
\* current_page] = [row[:] for row in manual_table_data]", the flag
\* manual_mode_active being active when the cell is saved: the grid, the
\* stored grids, table_data and what shares its rows afterwards.
saved_and_stored(active) ==
  LET grid == saved_cell_content(manual_table_data, active, cell_text_entry,
                                 current_cell)
  IN [manual |-> grid,
      stored |-> stored_grid(shared_grids(all_pages_manual_data,
                                          manual_data_shared, grid),
                             current_page, grid),
      table |-> shared_rows(table_data, table_data_rows, manual_data_shared,
                            grid),
      rows |-> rows_unstored(table_data_rows, {current_page},
                             manual_data_shared),
      shared |-> manual_data_shared \ {current_page}]

\* ManualInputManager.exit_manual_mode_and_store_data, manual mode being
\* active: the cell is saved, a copy of the grid stored under the current
\* page, and _cleanup_manual_input destroys the entry box and binds the
\* canvas to the marker handler again.
exit_manual_mode_and_store_data ==
  LET s == saved_and_stored(TRUE)
  IN /\ manual_table_data' = s.manual
     /\ all_pages_manual_data' = s.stored
     /\ table_data' = s.table
     /\ table_data_rows' = s.rows
     /\ manual_data_shared' = s.shared
     /\ manual_mode_active' = FALSE
     /\ cell_text_entry' = NoEntry
     /\ canvas_button_1' = "main_area"
     /\ UNCHANGED <<current_cell, cell_coordinates>>

\* A page without text, and a document of n such pages.
BlankPage == [readable |-> TRUE, spans |-> <<>>]

BlankPages(n) == [p \in 0..(n - 1) |-> BlankPage]

\* selection_start = selection_end = None
NoSelection == [made |-> FALSE, x1 |-> 0, y1 |-> 0, x2 |-> 0, y2 |-> 0]

\* processed_image = None
NoImage == [width |-> 0, height |-> 0, ink |-> <<255, 255, 255>>, strokes |-> {}]

\* AreaProcessor.__init__: nothing selected, processed or detected yet.
NoDetection ==
  /\ selection = NoSelection
  /\ processed_image = NoImage
  /\ detected_vertical_lines = <<>>
  /\ detected_horizontal_lines = <<>>
  /\ detection_error = FALSE

\* PDFTableExtractorApp.__init__
Init ==
  /\ pdf_document = FALSE
  /\ total_pages = 0
  /\ current_page = 0
  /\ zoom_factor = <<1000, 0>>
  /\ column_markers = <<>>
  /\ row_markers = <<>>
  /\ selection_mode = "none"
  /\ marker_history = <<>>
  /\ page_markers = NoPageMarkers
  /\ markers_shared = FALSE
  /\ pdf_pages = BlankPages(0)
  /\ text_page = <<>>
  /\ extraction_mode = "unset"
  /\ table_data = <<>>
  /\ page_table = <<>>
  /\ all_tables = <<>>
  /\ merged_table = <<>>
  /\ NoDetection
  /\ FreshManagers

\* ----------------------------------------------------- marker store
\* The working set and the history, as one value.
Working == [c |-> column_markers, r |-> row_markers, h |-> marker_history]

\* add_marker without the membership test.
add_marker_unchecked(s, mode, x, y) ==
  IF mode = "column"
  THEN [c |-> Sorted(Append(s.c, x)), r |-> s.r,
        h |-> Append(s.h, [type |-> "column", value |-> x])]
  ELSE IF mode = "row"
  THEN [c |-> s.c, r |-> Sorted(Append(s.r, y)),
        h |-> Append(s.h, [type |-> "row", value |-> y])]
  ELSE s

\* _on_canvas_click without the sort of the list.
add_marker_unsorted(s, mode, x, y) ==
  IF mode = "column"
  THEN IF x \notin Range(s.c)
       THEN [c |-> Append(s.c, x), r |-> s.r,
             h |-> Append(s.h, [type |-> "column", value |-> x])]
       ELSE s
  ELSE IF mode = "row"
  THEN IF y \notin Range(s.r)
       THEN [c |-> s.c, r |-> Append(s.r, y),
             h |-> Append(s.h, [type |-> "row", value |-> y])]
       ELSE s
  ELSE s

\* _on_canvas_click in 'column' or 'row' mode at document position (x, y).
add_marker(s, mode, x, y) ==
  IF mode = "column"
  THEN IF x \notin Range(s.c)
       THEN [c |-> Sorted(Append(s.c, x)), r |-> s.r,
             h |-> Append(s.h, [type |-> "column", value |-> x])]
       ELSE s
  ELSE IF mode = "row"
  THEN IF y \notin Range(s.r)
       THEN [c |-> s.c, r |-> Sorted(Append(s.r, y)),
             h |-> Append(s.h, [type |-> "row", value |-> y])]
       ELSE s
  ELSE s

\* undo_marker taking the oldest history entry instead of the newest.
undo_marker_fifo(s) ==
  IF s.h = <<>> THEN s
  ELSE LET first_marker == s.h[1]
           rest == Tail(s.h)
       IN IF first_marker.type = "column"
          THEN [c |-> ListRemove(s.c, first_marker.value), r |-> s.r, h |-> rest]
          ELSE [c |-> s.c, r |-> ListRemove(s.r, first_marker.value), h |-> rest]

\* undo_marker removing the last marker of the list when the entry's value
\* is not in it.
undo_marker_forced(s) ==
  IF s.h = <<>> THEN s
  ELSE LET last_marker == s.h[Len(s.h)]
           rest == SubSeq(s.h, 1, Len(s.h) - 1)
           Forced(list) == IF last_marker.value \in Range(list)
                           THEN ListRemove(list, last_marker.value)
                           ELSE SubSeq(list, 1, Len(list) - 1)
       IN IF last_marker.type = "column"
          THEN [c |-> Forced(s.c), r |-> s.r, h |-> rest]
          ELSE [c |-> s.c, r |-> Forced(s.r), h |-> rest]

\* MarkerManager.undo_last_marker
undo_marker(s) ==
  IF s.h = <<>> THEN s
  ELSE LET last_marker == s.h[Len(s.h)]
           rest == SubSeq(s.h, 1, Len(s.h) - 1)
       IN IF last_marker.type = "column"
          THEN [c |-> ListRemove(s.c, last_marker.value), r |-> s.r, h |-> rest]
          ELSE IF last_marker.type = "row"
          THEN [c |-> s.c, r |-> ListRemove(s.r, last_marker.value), h |-> rest]
          ELSE [c |-> s.c, r |-> s.r, h |-> rest]

\* The record of the current page after an in-place mutation of the working
\* lists: a shared list is the record's list.
WriteThrough(pm, shared, page, cols, rows) ==
  IF shared /\ page \in DOMAIN pm
  THEN [pm EXCEPT ![page] = [columns |-> cols, rows |-> rows]]
  ELSE pm

\* page_markers[page] = {...}
PutRecord(pm, page, cols, rows) ==
  [p \in (DOMAIN pm) \cup {page} |->
     IF p = page THEN [columns |-> cols, rows |-> rows] ELSE pm[p]]

\* update_page_display without the else branch that clears the working set.
update_page_display_keep(doc, page, pm, cols, rows, shared) ==
  IF doc /\ page \in DOMAIN pm
  THEN [c |-> pm[page].columns, r |-> pm[page].rows, shared |-> TRUE]
  ELSE [c |-> cols, r |-> rows, shared |-> shared]

\* The part of PDFHandler.update_page_display that loads the page's markers:
\* the saved record's own lists when there is one, fresh empty lists otherwise;
\* nothing without a document.
update_page_display(doc, page, pm, cols, rows, shared) ==
  IF ~doc THEN [c |-> cols, r |-> rows, shared |-> shared]
  ELSE IF page \in DOMAIN pm
  THEN [c |-> pm[page].columns, r |-> pm[page].rows, shared |-> TRUE]
  ELSE [c |-> <<>>, r |-> <<>>, shared |-> FALSE]

\* zoom_markers without putting the copies back.
zoom_markers_no_restore(doc, page, pm, cols, rows, shared) ==
  update_page_display(doc, page, pm, cols, rows, shared)

\* The marker handling shared by zoom_in, zoom_out and reset_zoom: copy the
\* working lists, refresh the display, put the copies back.
zoom_markers(doc, page, pm, cols, rows, shared) ==
  LET current_column_markers == cols
      current_row_markers == rows
      shown == update_page_display(doc, page, pm, cols, rows, shared)
  IN [c |-> current_column_markers, r |-> current_row_markers, shared |-> FALSE]

\* ------------------------------------------------------------ zoom
RECURSIVE Pow(_, _)
Pow(b, n) == IF n = 0 THEN 1 ELSE b * Pow(b, n - 1)

\* zoom_factor < 0.1, for zoom_factor = z[1]/1000 * 1.2^z[2]
BelowMinZoom(z) ==
  IF z[2] < 0
  THEN z[1] * Pow(10, 0 - z[2]) < 100 * Pow(12, 0 - z[2])
  ELSE z[1] * Pow(12, z[2]) < 100 * Pow(10, z[2])

\* zoom_factor /= 1.2; if zoom_factor < 0.1: zoom_factor = 0.1
zoomed_out(z) ==
  LET lower == <<z[1], z[2] - 1>>
  IN IF BelowMinZoom(lower) THEN <<100, 0>> ELSE lower

\* ---------------------------------------------------------- actions
\* PDFHandler.open_pdf, for a file of n pages without text that opens.
open_pdf(n) ==
  /\ pdf_document' = TRUE
  /\ total_pages' = n
  /\ current_page' = 0
  /\ column_markers' = <<>>
  /\ row_markers' = <<>>
  /\ markers_shared' = FALSE
  /\ pdf_pages' = BlankPages(n)
  /\ text_page' = <<>>
  /\ UNCHANGED <<zoom_factor, selection_mode, marker_history, page_markers>>
  /\ UNCHANGED <<extraction_mode, table_data, page_table, mergeVars, lineVars, orientVars, configVars>>

\* PDFTableExtractorApp.set_selection_mode
set_selection_mode(mode) ==
  /\ selection_mode' = mode
  /\ UNCHANGED <<pdf_document, total_pages, current_page, zoom_factor,
                 column_markers, row_markers, marker_history, page_markers,
                 markers_shared>>
  /\ UNCHANGED <<gridVars, mergeVars, lineVars, orientVars, configVars>>

\* _on_canvas_click at document position (x, y)
on_canvas_click(x, y) ==
  /\ selection_mode # "none"
  /\ pdf_document
  /\ Len(marker_history) < MaxHist
  /\ LET s == add_marker(Working, selection_mode, x, y)
     IN /\ column_markers' = s.c
        /\ row_markers' = s.r
        /\ marker_history' = s.h
        /\ page_markers' = WriteThrough(page_markers, markers_shared,
                                        current_page, s.c, s.r)
  /\ UNCHANGED <<pdf_document, total_pages, current_page, zoom_factor,
                 selection_mode, markers_shared>>
  /\ UNCHANGED <<gridVars, mergeVars, lineVars, orientVars, configVars>>

\* MarkerManager.undo_last_marker
undo_last_marker ==
  /\ LET s == undo_marker(Working)
     IN /\ column_markers' = s.c
        /\ row_markers' = s.r
        /\ marker_history' = s.h
        /\ page_markers' = WriteThrough(page_markers, markers_shared,
                                        current_page, s.c, s.r)
  /\ UNCHANGED <<pdf_document, total_pages, current_page, zoom_factor,
                 selection_mode, markers_shared>>
  /\ UNCHANGED <<gridVars, mergeVars, lineVars, orientVars, configVars>>

\* MarkerManager.clear_lines
clear_lines ==
  /\ column_markers' = <<>>
  /\ row_markers' = <<>>
  /\ marker_history' = <<>>
  /\ markers_shared' = FALSE
  /\ UNCHANGED <<pdf_document, total_pages, current_page, zoom_factor,
                 selection_mode, page_markers>>
  /\ UNCHANGED <<gridVars, mergeVars, lineVars, orientVars, configVars>>

\* The record written by MarkerManager.save_page_markers: copies of the
\* working lists, under the current page.
saved_page_markers(pm, page, cols, rows) == PutRecord(pm, page, cols, rows)

\* MarkerManager.save_page_markers ("Mark Current Page")
save_page_markers ==
  /\ pdf_document
  /\ column_markers # <<>>
  /\ row_markers # <<>>
  /\ page_markers' = saved_page_markers(page_markers, current_page,
                                        column_markers, row_markers)
  /\ markers_shared' = FALSE
  /\ UNCHANGED <<pdf_document, total_pages, current_page, zoom_factor,
                 column_markers, row_markers, selection_mode, marker_history>>
  /\ UNCHANGED <<gridVars, mergeVars, lineVars, orientVars, configVars>>

\* MarkerManager.clear_page_markers, confirmed by the user
clear_page_markers ==
  /\ DOMAIN page_markers # {}
  /\ page_markers' = NoPageMarkers
  /\ markers_shared' = FALSE
  /\ UNCHANGED <<pdf_document, total_pages, current_page, zoom_factor,
                 column_markers, row_markers, selection_mode, marker_history>>
  /\ UNCHANGED <<gridVars, mergeVars, lineVars, orientVars, configVars>>

\* The body shared by next_page and prev_page: leave manual mode, storing its
\* grid, when it is active; offer to save unsaved markers
\* (save_answer is the user's reply), move to page target, refresh the display.
turn_page(target, save_answer) ==
  LET ask == /\ column_markers # <<>>
             /\ row_markers # <<>>
             /\ current_page \notin DOMAIN page_markers
      pm == IF ask /\ save_answer
            THEN saved_page_markers(page_markers, current_page,
                                    column_markers, row_markers)
            ELSE page_markers
      shown == update_page_display(pdf_document, target, pm, column_markers,
                                   row_markers, markers_shared)
  IN /\ page_markers' = pm
     /\ current_page' = target
     /\ column_markers' = shown.c
     /\ row_markers' = shown.r
     /\ markers_shared' = shown.shared
     /\ IF manual_mode_active
        THEN exit_manual_mode_and_store_data
        ELSE UNCHANGED <<table_data, all_pages_manual_data, manualVars>>
     /\ UNCHANGED <<pdf_document, total_pages, zoom_factor, selection_mode,
                    marker_history>>
     /\ UNCHANGED <<pdf_pages, text_page, extraction_mode, page_table,
                    mergeVars, lineVars, orientVars, config_file, csv_file>>

\* PDFHandler.next_page
next_page(save_answer) ==
  /\ pdf_document
  /\ current_page < total_pages - 1
  /\ turn_page(current_page + 1, save_answer)

\* PDFHandler.prev_page
prev_page(save_answer) ==
  /\ pdf_document
  /\ current_page > 0
  /\ turn_page(current_page - 1, save_answer)

\* The tail shared by the three zoom handlers, once zoom_factor is set to z.
zoom_to(z) ==
  LET kept == zoom_markers(pdf_document, current_page, page_markers,
                           column_markers, row_markers, markers_shared)
  IN /\ zoom_factor' = z
     /\ column_markers' = kept.c
     /\ row_markers' = kept.r
     /\ markers_shared' = kept.shared
     /\ UNCHANGED <<pdf_document, total_pages, current_page, selection_mode,
                    marker_history, page_markers>>
     /\ UNCHANGED <<gridVars, mergeVars, lineVars, orientVars, configVars>>

\* PDFHandler.zoom_in
zoom_in ==
  /\ zoom_factor[2] < MaxZoomIn
  /\ zoom_to(<<zoom_factor[1], zoom_factor[2] + 1>>)

\* PDFHandler.zoom_out
zoom_out ==
  /\ zoom_factor[2] > 0 - MaxZoomOut
  /\ zoom_to(zoomed_out(zoom_factor))

\* PDFHandler.reset_zoom
reset_zoom == zoom_to(<<1000, 0>>)

\* One guarded addition of AreaProcessor.apply_detected_lines:
\* "if v not in markers: markers.append(v); history.append({type, value})".
add_detected(s, type, v) ==
  IF type = "column"
  THEN IF v \notin Range(s.c)
       THEN [c |-> Append(s.c, v), r |-> s.r,
             h |-> Append(s.h, [type |-> "column", value |-> v])]
       ELSE s
  ELSE IF v \notin Range(s.r)
       THEN [c |-> s.c, r |-> Append(s.r, v),
             h |-> Append(s.h, [type |-> "row", value |-> v])]
       ELSE s

\* The loops over the detected lines, in list order.
RECURSIVE add_all_detected(_, _, _)
add_all_detected(s, type, vals) ==
  IF vals = <<>> THEN s
  ELSE add_all_detected(add_detected(s, type, Head(vals)), type, Tail(vals))

\* apply_detected_lines without the selection's boundaries.
apply_detected_lines_inner(s, clear, x1, y1, x2, y2, xs, ys) ==
  LET s0 == IF clear THEN [c |-> <<>>, r |-> <<>>, h |-> <<>>] ELSE s
      s5 == add_all_detected(s0, "column", xs)
      s6 == add_all_detected(s5, "row", ys)
  IN [c |-> Sorted(s6.c), r |-> Sorted(s6.r), h |-> s6.h]

\* AreaProcessor.apply_detected_lines on the working state s: clear when the
\* user says so, add the selection's four boundaries, then the mapped vertical
\* lines xs and horizontal lines ys, then sort both marker lists.
apply_detected_lines(s, clear, x1, y1, x2, y2, xs, ys) ==
  LET s0 == IF clear THEN [c |-> <<>>, r |-> <<>>, h |-> <<>>] ELSE s
      s1 == add_detected(s0, "column", x1)
      s2 == add_detected(s1, "column", x2)
      s3 == add_detected(s2, "row", y1)
      s4 == add_detected(s3, "row", y2)
      s5 == add_all_detected(s4, "column", xs)
      s6 == add_all_detected(s5, "row", ys)
  IN [c |-> Sorted(s6.c), r |-> Sorted(s6.r), h |-> s6.h]

\* AreaProcessor.process_selected_area for the selection (x1, y1)-(x2, y2),
\* already put in order by the handler; xs and ys are the document-space
\* positions the detected lines map to, clear the user's answer to
\* "Clear existing markers before applying detected lines?".
process_selected_area(clear, x1, y1, x2, y2, xs, ys) ==
  /\ pdf_document
  /\ x1 <= x2
  /\ y1 <= y2
  /\ LET s == apply_detected_lines(Working, clear, x1, y1, x2, y2, xs, ys)
         shared == IF clear THEN FALSE ELSE markers_shared
     IN /\ Len(s.h) <= MaxHist
        /\ column_markers' = s.c
        /\ row_markers' = s.r
        /\ marker_history' = s.h
        /\ markers_shared' = shared
        /\ page_markers' = WriteThrough(page_markers, shared, current_page,
                                        s.c, s.r)
  /\ UNCHANGED <<pdf_document, total_pages, current_page, zoom_factor,
                 selection_mode>>
  /\ UNCHANGED <<gridVars, mergeVars, lineVars, orientVars, configVars>>

\* The records save_page_markers can have written, and the snapshots a file
\* written by save_all_page_markers can hold.
SavedRecords ==
  {[columns |-> c, rows |-> r] :
     c \in AscendingLists(SessionXs) \ {<<>>},
     r \in AscendingLists(SessionYs) \ {<<>>}}

Snapshots == UNION {[D -> SavedRecords] : D \in (SUBSET Pages) \ {{}}}

\* MarkerManager.load_markers_for_current_page
load_markers_for_current_page(page, pm, cols, rows) ==
  IF page \in DOMAIN pm
  THEN [c |-> pm[page].columns, r |-> pm[page].rows, shared |-> TRUE]
  ELSE [c |-> <<>>, r |-> <<>>, shared |-> FALSE]

\* ConfigManager.load_all_page_markers for a file holding 'page_markers'
load_all_page_markers(loaded) ==
  /\ page_markers' = loaded
  /\ IF current_page \in DOMAIN loaded
     THEN LET m == load_markers_for_current_page(current_page, loaded,
                                                 column_markers, row_markers)
          IN /\ column_markers' = m.c
             /\ row_markers' = m.r
             /\ markers_shared' = m.shared
     ELSE /\ UNCHANGED <<column_markers, row_markers>>
          /\ markers_shared' = FALSE
  /\ UNCHANGED <<pdf_document, total_pages, current_page, zoom_factor,
                 selection_mode, marker_history>>
  /\ UNCHANGED <<gridVars, mergeVars, lineVars, orientVars, configVars>>

\* The mapped positions of the detected vertical and horizontal lines.
DetectedXs == SeqsUpTo(XCoords, MaxDetected)

SessionDetectedXs == SeqsUpTo(SessionXs, MaxDetected)

SessionDetectedYs == SeqsUpTo(SessionYs, MaxDetected)

\* ------------------------------------------------- the session
\* Every handler of the session, from the state the constructor leaves.
Next ==
  \/ open_pdf(NumPages)
  \/ \E mode \in {"column", "row"} : set_selection_mode(mode)
  \/ \E x \in SessionXs, y \in SessionYs : on_canvas_click(x, y)
  \/ undo_last_marker
  \/ clear_lines
  \/ save_page_markers
  \/ clear_page_markers
  \/ \E save_answer \in BOOLEAN : next_page(save_answer)
  \/ \E save_answer \in BOOLEAN : prev_page(save_answer)
  \/ zoom_in
  \/ zoom_out
  \/ reset_zoom
  \/ \E clear \in BOOLEAN, x1 \in SessionXs, x2 \in SessionXs,
        y1 \in SessionYs, y2 \in SessionYs,
        xs \in SessionDetectedXs, ys \in SessionDetectedYs :
          process_selected_area(clear, x1, y1, x2, y2, xs, ys)
  \/ \E loaded \in Snapshots : load_all_page_markers(loaded)

Spec == Init /\ [][Next]_vars

\* ---------------------------------------------- the marker store
\* The marker handlers alone, started in any working state the session can
\* be in: page turns leave the history as it is while they replace the
\* working lists, so the history need not match the markers. Columns take
\* their values from XCoords; rows, handled by the same code with the names
\* swapped, from the smaller SessionYs.
HistoryEntries ==
  [type : {"column"}, value : XCoords] \cup [type : {"row"}, value : SessionYs]

InitMarkers ==
  /\ pdf_document = TRUE
  /\ total_pages = NumPages
  /\ current_page = 0
  /\ zoom_factor = <<1000, 0>>
  /\ column_markers \in AscendingLists(XCoords)
  /\ row_markers \in AscendingLists(SessionYs)
  /\ selection_mode = "none"
  /\ marker_history \in SeqsUpTo(HistoryEntries, MaxHist)
  /\ page_markers = NoPageMarkers
  /\ markers_shared = FALSE
  /\ pdf_pages = BlankPages(NumPages)
  /\ text_page = <<>>
  /\ extraction_mode = "unset"
  /\ table_data = <<>>
  /\ page_table = <<>>
  /\ all_tables = <<>>
  /\ merged_table = <<>>
  /\ NoDetection
  /\ FreshManagers

NextMarkers ==
  \/ \E mode \in {"column", "row"} : set_selection_mode(mode)
  \/ \E x \in XCoords, y \in SessionYs : on_canvas_click(x, y)
  \/ undo_last_marker
  \/ clear_lines
  \/ \E clear \in BOOLEAN, x1 \in XCoords, x2 \in XCoords,
        y1 \in SessionYs, y2 \in SessionYs,
        xs \in DetectedXs, ys \in SessionDetectedYs :
          process_selected_area(clear, x1, y1, x2, y2, xs, ys)

SpecMarkers == InitMarkers /\ [][NextMarkers]_vars

\* ------------------------------------------------- grid extraction
\* A string is the sequence of its characters.
Whitespace == {" ", "\n", "\t", "\r"}

\* Twice the centre "x0 + (x1 - x0) / 2" of a bbox side, to stay in integers.
center2(lo, hi) == 2 * lo + (hi - lo)

\* find_index with the upper bound of an interval included.
find_index_closed(bounds, c2) ==
  LET hits == {i \in 1..(Len(bounds) - 1) :
                 2 * bounds[i] <= c2 /\ c2 <= 2 * bounds[i + 1]}
  IN IF hits = {} THEN 0 ELSE Min(hits)

\* find_index with the lower bound of an interval excluded.
find_index_open(bounds, c2) ==
  LET hits == {i \in 1..(Len(bounds) - 1) :
                 2 * bounds[i] < c2 /\ c2 < 2 * bounds[i + 1]}
  IN IF hits = {} THEN 0 ELSE Min(hits)

\* "for i in range(len(bounds) - 1): if bounds[i] <= c < bounds[i + 1]: break":
\* the first interval holding the centre, counted from 1; 0 is Python's -1.
find_index(bounds, c2) ==
  LET hits == {i \in 1..(Len(bounds) - 1) :
                 2 * bounds[i] <= c2 /\ c2 < 2 * bounds[i + 1]}
  IN IF hits = {} THEN 0 ELSE Min(hits)

\* grid_size counting the markers instead of the intervals between them.
grid_size_markers(bounds) == IF Len(bounds) > 1 THEN Len(bounds) ELSE 1

\* "len(bounds) - 1 if len(bounds) > 1 else 1"
grid_size(bounds) == IF Len(bounds) > 1 THEN Len(bounds) - 1 ELSE 1

\* page.rect.width and page.rect.height
PageWidth == MaxX + 2
PageHeight == MaxY + 2

\* The table boundaries, the cell boundaries and the grid's size.
grid_layout(cols, rows) ==
  [min_x |-> IF cols # <<>> THEN Min(Range(cols)) ELSE 0,
   max_x |-> IF cols # <<>> THEN Max(Range(cols)) ELSE PageWidth,
   min_y |-> IF rows # <<>> THEN Min(Range(rows)) ELSE 0,
   max_y |-> IF rows # <<>> THEN Max(Range(rows)) ELSE PageHeight,
   col_bounds |-> Sorted(cols),
   row_bounds |-> Sorted(rows),
   cols |-> grid_size(Sorted(cols)),
   rows |-> grid_size(Sorted(rows))]

empty_grid(rows, cols) == [r \in 1..rows |-> [c \in 1..cols |-> <<>>]]

\* The cell after one more text: extract_table always appends "\n" + text,
\* _extract_table_data appends by the extraction mode, and appends nothing
\* when the mode is neither of the two.
appended(cell, text, mode) ==
  IF cell = <<>> THEN text
  ELSE IF mode = "space" THEN cell \o <<" ">> \o text
  ELSE IF mode = "newline" THEN cell \o <<"\n">> \o text
  ELSE cell

\* The body of the loop over the spans.
place_span(table, span, g, mode) ==
  LET center_x == center2(span.x0, span.x1)
      center_y == center2(span.y0, span.y1)
  IN IF ~(/\ 2 * g.min_x <= center_x /\ center_x <= 2 * g.max_x
          /\ 2 * g.min_y <= center_y /\ center_y <= 2 * g.max_y)
     THEN table
     ELSE LET col_idx == find_index(g.col_bounds, center_x)
              row_idx == find_index(g.row_bounds, center_y)
          IN IF /\ col_idx >= 1 /\ row_idx >= 1
                /\ col_idx <= g.cols /\ row_idx <= g.rows
             THEN [table EXCEPT ![row_idx][col_idx] = appended(@, span.text, mode)]
             ELSE table

RECURSIVE place_spans(_, _, _, _)
place_spans(table, spans, g, mode) ==
  IF spans = <<>> THEN table
  ELSE place_spans(place_span(table, Head(spans), g, mode), Tail(spans), g, mode)

\* The grid TableExtractor.extract_table builds before it looks at the
\* text's orientation.
extract_table_grid(cols, rows, spans) ==
  LET g == grid_layout(cols, rows)
  IN place_spans(empty_grid(g.rows, g.cols), spans, g, "newline")

\* TableExtractor._extract_table_data
extract_table_data(cols, rows, spans, mode) ==
  LET g == grid_layout(cols, rows)
  IN place_spans(empty_grid(g.rows, g.cols), spans, g, mode)

\* ---------------------------------------------- text orientation
\* str.split("\n")
RECURSIVE split_lines(_)
split_lines(str) ==
  LET breaks == {i \in 1..Len(str) : str[i] = "\n"}
  IN IF breaks = {} THEN <<str>>
     ELSE <<SubSeq(str, 1, Min(breaks) - 1)>>
          \o split_lines(SubSeq(str, Min(breaks) + 1, Len(str)))

\* str.strip()
strip(str) ==
  LET solid == {i \in 1..Len(str) : str[i] \notin Whitespace}
  IN IF solid = {} THEN <<>> ELSE SubSeq(str, Min(solid), Max(solid))

\* segment[::-1] and reversed(lines)
reversed(q) == [i \in 1..Len(q) |-> q[Len(q) + 1 - i]]

\* "".join(segments)
RECURSIVE joined(_)
joined(segments) ==
  IF segments = <<>> THEN <<>> ELSE Head(segments) \o joined(Tail(segments))

\* str.replace("\\n", ""): drops every backslash followed by the letter n.
RECURSIVE without_escaped_newlines(_)
without_escaped_newlines(str) ==
  IF Len(str) < 2 THEN str
  ELSE IF str[1] = "\\" /\ str[2] = "n"
  THEN without_escaped_newlines(SubSeq(str, 3, Len(str)))
  ELSE <<str[1]>> \o without_escaped_newlines(Tail(str))

\* The test of one cell in TableExtractor._detect_orientation_issues.
is_vertical_text(cell) ==
  /\ "\n" \in Range(cell)
  /\ LET lines == split_lines(cell)
         short_lines == {i \in 1..Len(lines) :
                           Len(strip(lines[i])) <= 2 /\ Len(strip(lines[i])) > 0}
     IN Len(lines) >= 3 /\ 2 * Cardinality(short_lines) > Len(lines)

\* TableExtractor._detect_orientation_issues
detect_orientation_issues(table) ==
  LET all_text == {rc \in {<<r, c>> : r \in 1..Len(table), c \in 1..Len(table[1])} :
                     table[rc[1]][rc[2]] # <<>>}
      vertical_text == {rc \in all_text : is_vertical_text(table[rc[1]][rc[2]])}
  IN /\ all_text # {}
     /\ Cardinality(vertical_text) > 0
     /\ 5 * Cardinality(vertical_text) >= Cardinality(all_text)

\* One cell of TableExtractor._correct_text_orientation.
corrected_cell(cell) ==
  IF cell = <<>> \/ Len(strip(cell)) < 3 THEN cell
  ELSE IF "\n" \notin Range(cell) THEN cell
  ELSE LET parts == split_lines(cell)
           lines == SelectSeq([i \in 1..Len(parts) |-> strip(parts[i])],
                              LAMBDA l : l # <<>>)
       IN IF Len(lines) < 2 THEN cell
          ELSE without_escaped_newlines(
                 joined([i \in 1..Len(lines) |-> reversed(reversed(lines)[i])]))

\* TableExtractor._correct_text_orientation
correct_text_orientation(table) ==
  [r \in 1..Len(table) |-> [c \in 1..Len(table[r]) |-> corrected_cell(table[r][c])]]

\* ------------------------------------------------ extraction steps
\* TableExtractor.extract_table: mode is the user's choice in the extraction
\* mode dialog, answer the reply to "Want to apply correction?".
extract_table(mode, answer) ==
  /\ pdf_document
  /\ column_markers # <<>>
  /\ row_markers # <<>>
  /\ extraction_mode' = mode
  /\ LET table == extract_table_grid(column_markers, row_markers, text_page)
     IN table_data' = IF detect_orientation_issues(table) /\ answer
                      THEN correct_text_orientation(table)
                      ELSE table
  /\ table_data_rows' = <<>>
  /\ UNCHANGED <<sessionVars, mergeVars, lineVars, orientVars, manualFrame, pdf_pages, text_page, page_table>>

\* One page of TableExtractor.extract_from_marked_pages: the mode chosen in the
\* dialog, then _extract_table_data with the page's markers as working set.
extract_page(mode) ==
  /\ pdf_document
  /\ extraction_mode' = mode
  /\ page_table' = extract_table_data(column_markers, row_markers, text_page, mode)
  /\ UNCHANGED <<sessionVars, mergeVars, lineVars, orientVars, configVars, pdf_pages, text_page, table_data>>

\* The spans a page can hold: a text and a bbox whose top left corner is at
\* most MaxOrigin away from the page's and whose sides are 1..MaxSide long.
MaxSpans == 2
MaxOrigin == 0
MaxSide == 3

Texts == {<<"a">>, <<"b">>}

Spans ==
  {[text |-> t, x0 |-> x, y0 |-> y, x1 |-> x + w, y1 |-> y + h] :
     t \in Texts, x \in 0..MaxOrigin, y \in 0..MaxOrigin,
     w \in 1..MaxSide, h \in 1..MaxSide}

ExtractionModes == {"space", "newline"}

\* A loaded page with any text and any working markers the marker store
\* can hold.
InitGrid ==
  /\ pdf_document = TRUE
  /\ total_pages = NumPages
  /\ current_page = 0
  /\ zoom_factor = <<1000, 0>>
  /\ column_markers \in AscendingLists(XCoords)
  /\ row_markers \in AscendingLists(YCoords)
  /\ selection_mode = "none"
  /\ marker_history = <<>>
  /\ page_markers = NoPageMarkers
  /\ markers_shared = FALSE
  /\ text_page \in SeqsUpTo(Spans, MaxSpans)
  /\ pdf_pages = [p \in Pages |-> IF p = 0
                                  THEN [readable |-> TRUE, spans |-> text_page]
                                  ELSE BlankPage]
  /\ extraction_mode = "unset"
  /\ table_data = <<>>
  /\ page_table = <<>>
  /\ all_tables = <<>>
  /\ merged_table = <<>>
  /\ NoDetection
  /\ FreshManagers

NextGrid ==
  \/ \E mode \in ExtractionModes, answer \in BOOLEAN : extract_table(mode, answer)
  \/ \E mode \in ExtractionModes : extract_page(mode)

SpecGrid == InitGrid /\ [][NextGrid]_vars

\* ------------------------------------------- claims on the grid
\* Both marker lists hold at least two markers, strictly increasing.
StrictMarkers ==
  /\ Len(column_markers) >= 2
  /\ Len(row_markers) >= 2
  /\ IsStrictlyAscending(column_markers)
  /\ IsStrictlyAscending(row_markers)

IsGrid(table, rows, cols) ==
  /\ Len(table) = rows
  /\ \A r \in 1..rows : Len(table[r]) = cols

\* The span's centre lies in the half-open box of row j, column i.
InCell(span, j, i) ==
  /\ 2 * column_markers[i] <= center2(span.x0, span.x1)
  /\ center2(span.x0, span.x1) < 2 * column_markers[i + 1]
  /\ 2 * row_markers[j] <= center2(span.y0, span.y1)
  /\ center2(span.y0, span.y1) < 2 * row_markers[j + 1]

\* How many times the character ch occurs in the cell.
Count(cell, ch) == Cardinality({n \in 1..Len(cell) : cell[n] = ch})

Cells == (1..(Len(row_markers) - 1)) \X (1..(Len(column_markers) - 1))

\* C1: with at least two sorted markers of each type, extract_table and
\* _extract_table_data produce a rectangular grid of exactly
\* (number of row markers - 1) rows and (number of column markers - 1)
\* columns, whatever the spans of the page are.
C1_GridDimensions ==
  [][(/\ Len(column_markers) >= 2
      /\ Len(row_markers) >= 2
      /\ column_markers = Sorted(column_markers)
      /\ row_markers = Sorted(row_markers))
     => /\ \A mode \in ExtractionModes, answer \in BOOLEAN :
             extract_table(mode, answer) =>
               IsGrid(table_data', Len(row_markers) - 1, Len(column_markers) - 1)
        /\ \A mode \in ExtractionModes :
             extract_page(mode) =>
               IsGrid(page_table', Len(row_markers) - 1, Len(column_markers) - 1)
    ]_vars

\* Three column and three row markers, a page with text, and both extractions
\* done: two grids of two rows by two columns.
C1_Witness ==
  /\ Len(column_markers) = 3
  /\ Len(row_markers) = 3
  /\ text_page # <<>>
  /\ IsGrid(table_data, 2, 2)
  /\ IsGrid(page_table, 2, 2)

\* What C2 says of the grid an extraction produced.
HalfOpen(table) ==
  /\ \A k \in 1..Len(text_page) : \A rc \in Cells :
       LET span == text_page[k]
           j == rc[1]
           i == rc[2]
       IN ((\/ center2(span.x0, span.x1) = 2 * column_markers[i]
            \/ center2(span.y0, span.y1) = 2 * row_markers[j])
           /\ InCell(span, j, i))
          => Count(table[j][i], span.text[1]) >= 1
  /\ \A t \in Texts :
       (\A k \in 1..Len(text_page) :
          text_page[k].text = t =>
            \/ center2(text_page[k].x0, text_page[k].x1)
                 = 2 * column_markers[Len(column_markers)]
            \/ center2(text_page[k].y0, text_page[k].y1)
                 = 2 * row_markers[Len(row_markers)])
       => \A rc \in Cells : Count(table[rc[1]][rc[2]], t[1]) = 0

\* C2: cell intervals are half-open. A span centred exactly on a column marker
\* that is not the last one lands in the column that starts there, a span
\* centred exactly on a row marker that is not the last one lands in the row
\* that starts there, and a span centred on the last column marker or on the
\* last row marker lands in no cell: a text all of whose spans sit on a last
\* marker is in no cell of the grid.
C2_HalfOpenIntervals ==
  [][StrictMarkers
     => /\ \A mode \in ExtractionModes, answer \in BOOLEAN :
             extract_table(mode, answer) => HalfOpen(table_data')
        /\ \A mode \in ExtractionModes :
             extract_page(mode) => HalfOpen(page_table')
    ]_vars

\* An extracted page with one span centred on the first column marker and
\* inside a row, found in the first column, and another span centred on the
\* last row marker while the grid holds one text only.
C2_Witness ==
  /\ StrictMarkers
  /\ Len(table_data) = Len(row_markers) - 1
  /\ Len(text_page) = 2
  /\ text_page[1].text # text_page[2].text
  /\ center2(text_page[1].x0, text_page[1].x1) = 2 * column_markers[1]
  /\ \E j \in 1..(Len(row_markers) - 1) :
       /\ InCell(text_page[1], j, 1)
       /\ table_data[j][1] = text_page[1].text
  /\ center2(text_page[2].y0, text_page[2].y1)
       = 2 * row_markers[Len(row_markers)]
  /\ \A rc \in Cells : Count(table_data[rc[1]][rc[2]], text_page[2].text[1]) = 0

\* What C3 says of the grid an extraction produced: a cell holds each text as
\* many times as the page has spans of that text centred in the cell's box.
InOwnCell(table) ==
  \A rc \in Cells : \A t \in Texts :
    Count(table[rc[1]][rc[2]], t[1])
      = Cardinality({k \in 1..Len(text_page) :
                       /\ text_page[k].text = t
                       /\ InCell(text_page[k], rc[1], rc[2])})

\* C3: for strictly increasing markers, a span's text is in the grid exactly
\* when the span's centre lies in [C[first], C[last]) x [R[first], R[last]),
\* and then in the one cell (j, i) with C[i] <= cx < C[i+1] and
\* R[j] <= cy < R[j+1] only; a span centred outside the marker range changes
\* no cell.
C3_OneCellPerSpan ==
  [][StrictMarkers
     => /\ \A mode \in ExtractionModes, answer \in BOOLEAN :
             extract_table(mode, answer) => InOwnCell(table_data')
        /\ \A mode \in ExtractionModes :
             extract_page(mode) => InOwnCell(page_table')
    ]_vars

\* An extracted page with one span inside a cell and one span outside the
\* marker range: the grid holds the first text once and the second nowhere.
C3_Witness ==
  /\ StrictMarkers
  /\ Len(page_table) = Len(row_markers) - 1
  /\ Len(text_page) = 2
  /\ text_page[1].text # text_page[2].text
  /\ \E rc \in Cells :
       /\ InCell(text_page[2], rc[1], rc[2])
       /\ page_table[rc[1]][rc[2]] = text_page[2].text
  /\ center2(text_page[1].x0, text_page[1].x1) < 2 * column_markers[1]
  /\ \A rc \in Cells : Count(page_table[rc[1]][rc[2]], text_page[1].text[1]) = 0

\* The texts of the spans centred in cell (j, i), in the page's order.
RECURSIVE CellTexts(_, _, _)
CellTexts(spans, j, i) ==
  IF spans = <<>> THEN <<>>
  ELSE IF InCell(Head(spans), j, i)
  THEN <<Head(spans).text>> \o CellTexts(Tail(spans), j, i)
  ELSE CellTexts(Tail(spans), j, i)

Separator(mode) == IF mode = "space" THEN <<" ">> ELSE <<"\n">>

RECURSIVE JoinedBy(_, _)
JoinedBy(texts, sep) ==
  IF texts = <<>> THEN <<>>
  ELSE IF Len(texts) = 1 THEN texts[1]
  ELSE texts[1] \o sep \o JoinedBy(Tail(texts), sep)

CellsJoined(table, mode) ==
  \A rc \in Cells :
    table[rc[1]][rc[2]] = JoinedBy(CellTexts(text_page, rc[1], rc[2]), Separator(mode))

\* C4: every cell is the texts of the spans assigned to it, in the order the
\* spans were met, joined by the separator chosen in the extraction mode
\* dialog (a space in space mode, a newline in newline mode), in the grid of
\* extract_table (left as extracted, without orientation correction) and in
\* the grid of the per-page extraction.
C4_CellsJoinedBySeparator ==
  [][StrictMarkers
     => /\ \A mode \in ExtractionModes :
             extract_table(mode, FALSE) => CellsJoined(table_data', mode)
        /\ \A mode \in ExtractionModes :
             extract_page(mode) => CellsJoined(page_table', mode)
    ]_vars

\* ------------------------------------------------- merging grids
MaxTables == 2
MaxRows == 3
MaxWidth == 3

\* [''] * n
blank_cells(n) == [c \in 1..n |-> <<>>]

\* merged_row.extend(row) over the rows, left to right.
RECURSIVE extended(_)
extended(rows) ==
  IF rows = <<>> THEN <<>> ELSE Head(rows) \o extended(Tail(rows))

\* merge_tables_horizontally without the padding of a grid's rows to the
\* grid's own width.
merge_tables_horizontally_ragged(tables) ==
  IF tables = <<>> THEN <<>>
  ELSE LET max_rows == Max({Len(tables[t]) : t \in 1..Len(tables)})
           padded(table) ==
             LET cols == IF table # <<>>
                         THEN Max({Len(table[r]) : r \in 1..Len(table)})
                         ELSE 0
             IN table \o [r \in 1..(max_rows - Len(table)) |-> blank_cells(cols)]
       IN [row_idx \in 1..max_rows |->
             extended([t \in 1..Len(tables) |-> padded(tables[t])[row_idx]])]

\* TableExtractor.merge_tables_horizontally
merge_tables_horizontally(tables) ==
  IF tables = <<>> THEN <<>>
  ELSE LET max_rows == Max({Len(tables[t]) : t \in 1..Len(tables)})
           padded(table) ==
             LET cols == IF table # <<>>
                         THEN Max({Len(table[r]) : r \in 1..Len(table)})
                         ELSE 0
                 padded_table ==
                   [r \in 1..Len(table) |->
                      table[r] \o blank_cells(cols - Len(table[r]))]
             IN padded_table
                \o [r \in 1..(max_rows - Len(table)) |-> blank_cells(cols)]
       IN [row_idx \in 1..max_rows |->
             extended([t \in 1..Len(tables) |-> padded(tables[t])[row_idx]])]

\* The horizontal merge of the grids collected from the marked pages.
merge_horizontally ==
  /\ merged_table' = merge_tables_horizontally(all_tables)
  /\ UNCHANGED <<sessionVars, gridVars, lineVars, orientVars, configVars, all_tables>>

\* Grids of up to MaxRows rows of up to MaxWidth cells, rows of one grid not
\* all of one length; the cell in row r, column c of the t-th grid holds the
\* three characters t, r, c.
Digits == <<"0", "1", "2", "3", "4", "5", "6", "7", "8", "9">>

Shapes == SeqsUpTo(0..MaxWidth, MaxRows)

GridOfShape(t, shape) ==
  [r \in 1..Len(shape) |->
     [c \in 1..shape[r] |-> <<Digits[t + 1], Digits[r + 1], Digits[c + 1]>>]]

InitMerge ==
  /\ pdf_document = TRUE
  /\ total_pages = NumPages
  /\ current_page = 0
  /\ zoom_factor = <<1000, 0>>
  /\ column_markers = <<>>
  /\ row_markers = <<>>
  /\ selection_mode = "none"
  /\ marker_history = <<>>
  /\ page_markers = NoPageMarkers
  /\ markers_shared = FALSE
  /\ pdf_pages = BlankPages(NumPages)
  /\ text_page = <<>>
  /\ extraction_mode = "unset"
  /\ table_data = <<>>
  /\ page_table = <<>>
  /\ all_tables \in {[t \in 1..Len(shapes) |-> GridOfShape(t, shapes[t])] :
                       shapes \in SeqsUpTo(Shapes, MaxTables)}
  /\ merged_table = <<>>
  /\ NoDetection
  /\ FreshManagers

NextMerge == merge_horizontally

SpecMerge == InitMerge /\ [][NextMerge]_vars

\* The largest row width of a grid, 0 for a grid without rows.
Width(grid) ==
  IF grid = <<>> THEN 0 ELSE Max({Len(grid[r]) : r \in 1..Len(grid)})

RECURSIVE SumOfWidths(_)
SumOfWidths(tables) ==
  IF tables = <<>> THEN 0 ELSE Width(Head(tables)) + SumOfWidths(Tail(tables))

\* Row r of the grid filled up with empty strings to the grid's own width,
\* or that many empty strings when the grid has no row r.
PaddedRow(grid, r) ==
  IF r <= Len(grid)
  THEN grid[r] \o [c \in 1..(Width(grid) - Len(grid[r])) |-> <<>>]
  ELSE [c \in 1..Width(grid) |-> <<>>]

RECURSIVE RowAcross(_, _)
RowAcross(tables, r) ==
  IF tables = <<>> THEN <<>>
  ELSE PaddedRow(Head(tables), r) \o RowAcross(Tail(tables), r)

\* C10: the horizontal merge of the grids g1..gk has as many rows as the
\* tallest grid and as many columns as the grids' own largest row widths
\* add up to; its row r is, from left to right, row r of every grid padded
\* with empty strings to that grid's largest row width, or that many empty
\* strings for a grid without a row r; the grids handed in stay as they were.
C10_HorizontalMerge ==
  [][(merge_horizontally /\ all_tables # <<>>)
     => /\ Len(merged_table')
             = Max({Len(all_tables[t]) : t \in 1..Len(all_tables)})
        /\ \A r \in 1..Len(merged_table') :
             /\ Len(merged_table'[r]) = SumOfWidths(all_tables)
             /\ merged_table'[r] = RowAcross(all_tables, r)
        /\ all_tables' = all_tables
    ]_vars

\* Two grids of widths 2 and 3 with 2 and 3 rows, merged into 3 rows by 5
\* columns.
C10_Witness ==
  /\ Len(all_tables) = 2
  /\ Len(all_tables[1]) = 2
  /\ Width(all_tables[1]) = 2
  /\ Len(all_tables[2]) = 3
  /\ Width(all_tables[2]) = 3
  /\ Len(merged_table) = 3
  /\ \A r \in 1..3 : Len(merged_table[r]) = 5

\* ------------------------------------- claims on the marker store
MaxAdds == 3

\* The marker a click would add is not yet in the list of its type.
IsNew(s, e) ==
  IF e.type = "column" THEN e.value \notin Range(s.c) ELSE e.value \notin Range(s.r)

\* The working state after a click on the point (e.value, e.value) in the
\* selection mode e.type.
clicked(s, e) == add_marker(s, e.type, e.value, e.value)

RECURSIVE undo_times(_, _)
undo_times(s, n) == IF n = 0 THEN s ELSE undo_times(undo_marker(s), n - 1)

\* trail holds the working states passed through by accepted additions, the
\* latest last: j undos of the latest lead back to the state j additions
\* earlier, and so after up to `more` further accepted additions.
RECURSIVE UndoRetraces(_, _)
UndoRetraces(trail, more) ==
  LET s == trail[Len(trail)]
  IN /\ \A j \in 0..(Len(trail) - 1) : undo_times(s, j) = trail[Len(trail) - j]
     /\ more > 0 =>
          \A e \in HistoryEntries :
            IsNew(s, e) => UndoRetraces(Append(trail, clicked(s, e)), more - 1)

\* C5: undo is a strict inverse of add. After n accepted additions of
\* either type, j undos (j <= n) leave the column markers, the row markers
\* and the history as they were after the first n - j additions, so the
\* markers go in reverse order of insertion and n undos restore the state
\* before the additions.
C5_UndoInvertsAdd == UndoRetraces(<<Working>>, MaxAdds)

\* A column marker and then a row marker added by clicks, both in the lists
\* and on the history.
C5_Witness ==
  /\ selection_mode = "row"
  /\ Len(marker_history) = 2
  /\ marker_history[1].type = "column"
  /\ marker_history[1].value \in Range(column_markers)
  /\ marker_history[2].type = "row"
  /\ marker_history[2].value \in Range(row_markers)

\* Going from base to s, every marker of base is kept, every new value is
\* in its list once, and the history grew by one entry for each new value.
Recorded(base, s) ==
  LET new_columns == Range(s.c) \ Range(base.c)
      new_rows == Range(s.r) \ Range(base.r)
      added == SubSeq(s.h, Len(base.h) + 1, Len(s.h))
  IN /\ Range(base.c) \subseteq Range(s.c)
     /\ Range(base.r) \subseteq Range(s.r)
     /\ Len(s.c) = Len(base.c) + Cardinality(new_columns)
     /\ Len(s.r) = Len(base.r) + Cardinality(new_rows)
     /\ Len(s.h) >= Len(base.h)
     /\ SubSeq(s.h, 1, Len(base.h)) = base.h
     /\ Len(added) = Cardinality(new_columns) + Cardinality(new_rows)
     /\ Range(added) = [type : {"column"}, value : new_columns]
                         \cup [type : {"row"}, value : new_rows]

\* C6: a click on a value already in the working list of its type leaves
\* the list and the history unchanged, and an accepted click appends exactly
\* one history entry {type, value}; the markers apply_detected_lines adds go
\* by the same rule, each value new to its list being added once with one
\* history entry and each value already there being skipped.
C6_DuplicateRejected ==
  /\ \A mode \in {"column", "row"}, x \in XCoords, y \in SessionYs :
       LET s == add_marker(Working, mode, x, y)
           e == [type |-> mode, value |-> IF mode = "column" THEN x ELSE y]
       IN IF IsNew(Working, e)
          THEN /\ s.h = Append(marker_history, e)
               /\ Recorded(Working, s)
               /\ e.value \in Range(IF mode = "column" THEN s.c ELSE s.r)
          ELSE s = Working
  /\ \A clear \in BOOLEAN, x1 \in XCoords, x2 \in XCoords,
        y1 \in SessionYs, y2 \in SessionYs,
        xs \in DetectedXs, ys \in SessionDetectedYs :
       LET s == apply_detected_lines(Working, clear, x1, y1, x2, y2, xs, ys)
           base == IF clear THEN [c |-> <<>>, r |-> <<>>, h |-> <<>>] ELSE Working
       IN /\ Recorded(base, s)
          /\ {x1, x2} \cup Range(xs) \subseteq Range(s.c)
          /\ {y1, y2} \cup Range(ys) \subseteq Range(s.r)

\* Column selection mode with at least two column markers, the latest history
\* entry one of them.
C6_Witness ==
  /\ selection_mode = "column"
  /\ Len(column_markers) >= 2
  /\ marker_history # <<>>
  /\ marker_history[Len(marker_history)].type = "column"
  /\ marker_history[Len(marker_history)].value \in Range(column_markers)

\* ---------------------------------------- claims on the session
\* The stored record of page p differs between the two states of a step.
RecordChanged(p) ==
  \/ (p \in DOMAIN page_markers) # (p \in DOMAIN page_markers')
  \/ /\ p \in DOMAIN page_markers
     /\ p \in DOMAIN page_markers'
     /\ page_markers[p] # page_markers'[p]

\* C7: the stored record of a page changes only when save_page_markers runs
\* while that page is current (directly, or accepted at the prompt of
\* next_page / prev_page), or when all records are cleared or replaced by a
\* configuration load; a click or an undo never changes it.
C7_RecordIsSnapshot ==
  [][\A p \in Pages :
       RecordChanged(p) =>
         \/ p = current_page /\ save_page_markers
         \/ p = current_page /\ (next_page(TRUE) \/ prev_page(TRUE))
         \/ clear_page_markers
         \/ \E loaded \in Snapshots : load_all_page_markers(loaded)
    ]_vars

\* C8: a page turn leaves the working markers equal to the saved record of
\* the page arrived at, or both empty when that page has no record.
C8_PageTurnLoadsRecord ==
  [][\A save_answer \in BOOLEAN :
       (next_page(save_answer) \/ prev_page(save_answer)) =>
         IF current_page' \in DOMAIN page_markers'
         THEN /\ column_markers' = page_markers'[current_page'].columns
              /\ row_markers' = page_markers'[current_page'].rows
         ELSE /\ column_markers' = <<>>
              /\ row_markers' = <<>>
    ]_vars

\* A later page reached with no record of its own, the page left behind
\* holding markers.
C8_Witness ==
  /\ current_page = 1
  /\ 1 \notin DOMAIN page_markers
  /\ 0 \in DOMAIN page_markers
  /\ column_markers = <<>>
  /\ row_markers = <<>>

\* C9: the zoom handlers change neither the working markers, nor the history,
\* nor any saved record.
C9_ZoomKeepsMarkers ==
  [][(zoom_in \/ zoom_out \/ reset_zoom) =>
       UNCHANGED <<column_markers, row_markers, marker_history, page_markers>>
    ]_vars

\* Zoomed in on a page that has unsaved working markers and no record.
C9_Witness ==
  /\ pdf_document
  /\ zoom_factor # <<1000, 0>>
  /\ column_markers # <<>>
  /\ row_markers # <<>>
  /\ current_page \notin DOMAIN page_markers

\* ------------------------------------------- the multi-page pass
\* TableExtractor.merge_tables_vertically: merged.extend(table), table by
\* table.
RECURSIVE merge_tables_vertically(_)
merge_tables_vertically(tables) ==
  IF tables = <<>> THEN <<>>
  ELSE Head(tables) \o merge_tables_vertically(Tail(tables))

\* The marked pages taken in the order the dict hands out its keys.
marked_pages_unsorted(keys) == keys

\* "marked_pages = sorted(self.app.page_markers.keys())"; keys is the order in
\* which the dict hands them out, the order in which the pages were marked.
marked_pages(keys) == Sorted(keys)

\* The orders in which a dict with the keys D can hand them out.
KeyOrders(D) ==
  {q \in SeqsUpTo(D, Cardinality(D)) :
     Len(q) = Cardinality(D) /\ Range(q) = D}

\* "page_table = self._extract_table_data(page_idx)" with the page's record as
\* working set: the page's grid, or None when anything in the extraction
\* raised. A grid has at least one row, so <<>> stands for None.
page_grid(pages, pm, page_idx, mode) ==
  IF pages[page_idx].readable
  THEN extract_table_data(pm[page_idx].columns, pm[page_idx].rows,
                          pages[page_idx].spans, mode)
  ELSE <<>>

\* The loop over the marked pages: "if page_table: all_tables.append(page_table)".
RECURSIVE collect_tables(_, _, _, _)
collect_tables(pages, pm, order, mode) ==
  IF order = <<>> THEN <<>>
  ELSE LET grid == page_grid(pages, pm, Head(order), mode)
           rest == collect_tables(pages, pm, Tail(order), mode)
       IN IF grid # <<>> THEN <<grid>> \o rest ELSE rest

\* zip(*table) of the rows as they are: zip stops at the shortest row.
transposed_unpadded(table) ==
  LET cols == Min({Len(table[r]) : r \in 1..Len(table)})
  IN [c \in 1..cols |-> [r \in 1..Len(table) |-> table[r][c]]]

\* "list(map(list, zip(*padded_table)))" of the rows padded with '' to the
\* widest row; table has at least one row.
transposed(table) ==
  LET cols == Max({Len(table[r]) : r \in 1..Len(table)})
      padded_table == [r \in 1..Len(table) |->
                         table[r] \o blank_cells(cols - Len(table[r]))]
  IN [c \in 1..cols |-> [r \in 1..Len(table) |-> padded_table[r][c]]]

\* What create_multipage_options_dialog returns: the merge mode and the
\* transpose box, or nothing when the dialog is closed.
MultipageOptions ==
  [ok : {TRUE}, merge_mode : {"vertical", "horizontal"}, transpose : BOOLEAN]
  \cup {[ok |-> FALSE, merge_mode |-> "vertical", transpose |-> FALSE]}

\* TableExtractor.extract_from_marked_pages: keys is the order of the dict's
\* keys, mode the choice in the extraction mode dialog, options the reply to
\* the merge and transpose dialog.
extract_from_marked_pages(keys, mode, options) ==
  /\ pdf_document
  /\ DOMAIN page_markers # {}
  /\ extraction_mode' = mode
  /\ IF ~options.ok
     THEN UNCHANGED <<column_markers, row_markers, markers_shared, table_data,
                      table_data_rows, page_table, all_tables, merged_table>>
     ELSE LET order == marked_pages(keys)
              tables == collect_tables(pdf_pages, page_markers, order, mode)
              merged == IF options.merge_mode = "vertical"
                        THEN merge_tables_vertically(tables)
                        ELSE merge_tables_horizontally(tables)
              shown == update_page_display(pdf_document, current_page,
                                           page_markers, column_markers,
                                           row_markers, markers_shared)
          IN /\ page_table' = page_grid(pdf_pages, page_markers,
                                        order[Len(order)], mode)
             /\ IF tables = <<>>
                THEN UNCHANGED <<table_data, table_data_rows, all_tables,
                                 merged_table>>
                ELSE /\ all_tables' = tables
                     /\ merged_table' = merged
                     /\ table_data' = IF options.transpose
                                      THEN transposed(merged)
                                      ELSE merged
                     /\ table_data_rows' = <<>>
             /\ column_markers' = shown.c
             /\ row_markers' = shown.r
             /\ markers_shared' = shown.shared
  /\ UNCHANGED <<pdf_document, total_pages, current_page, zoom_factor,
                 selection_mode, marker_history, page_markers, pdf_pages,
                 text_page, lineVars, orientVars, manualFrame>>

\* The records of the marked pages: one, two or three markers on an axis.
PassMarkerLists == {<<1>>, <<0, 1>>, <<0, 1, 2>>}

PassRecords ==
  {[columns |-> c, rows |-> r] : c \in PassMarkerLists, r \in PassMarkerLists}

\* What a page of the document can be: a page whose text extraction raises,
\* or a page of up to MaxPageSpans spans, each one a square of side
\* 1..MaxPageSide at the page's corner holding the page's number.
MaxPageSpans == 1
MaxPageSide == 1

PageSpans(p) ==
  {[text |-> <<Digits[p + 1]>>, x0 |-> 0, y0 |-> 0, x1 |-> w, y1 |-> w] :
     w \in 1..MaxPageSide}

PageContents(p) ==
  {[readable |-> FALSE, spans |-> <<>>]}
  \cup {[readable |-> TRUE, spans |-> q] :
          q \in SeqsUpTo(PageSpans(p), MaxPageSpans)}

\* A document of NumPages pages, some of them marked, shown at page 0.
InitPass ==
  /\ pdf_document = TRUE
  /\ total_pages = NumPages
  /\ current_page = 0
  /\ zoom_factor = <<1000, 0>>
  /\ page_markers \in UNION {[D -> PassRecords] : D \in (SUBSET Pages) \ {{}}}
  /\ column_markers = IF 0 \in DOMAIN page_markers
                      THEN page_markers[0].columns ELSE <<>>
  /\ row_markers = IF 0 \in DOMAIN page_markers
                   THEN page_markers[0].rows ELSE <<>>
  /\ selection_mode = "none"
  /\ marker_history = <<>>
  /\ markers_shared = (0 \in DOMAIN page_markers)
  /\ pdf_pages \in {f \in [Pages -> UNION {PageContents(p) : p \in Pages}] :
                      \A p \in Pages : f[p] \in PageContents(p)}
  /\ text_page = pdf_pages[0].spans
  /\ extraction_mode = "unset"
  /\ table_data = <<>>
  /\ page_table = <<>>
  /\ all_tables = <<>>
  /\ merged_table = <<>>
  /\ NoDetection
  /\ FreshManagers

NextPass ==
  \E keys \in KeyOrders(DOMAIN page_markers), mode \in ExtractionModes,
     options \in MultipageOptions :
       extract_from_marked_pages(keys, mode, options)

SpecPass == InitPass /\ [][NextPass]_vars

\* The rows of the grids of the marked pages p, p + 1, ..., one page after
\* the other, for the pages that gave a grid.
RECURSIVE RowsFromPage(_, _)
RowsFromPage(p, mode) ==
  IF p >= NumPages THEN <<>>
  ELSE (IF p \in DOMAIN page_markers /\ pdf_pages[p].readable
        THEN extract_table_data(page_markers[p].columns, page_markers[p].rows,
                                pdf_pages[p].spans, mode)
        ELSE <<>>)
       \o RowsFromPage(p + 1, mode)

RECURSIVE SumOfRows(_)
SumOfRows(tables) ==
  IF tables = <<>> THEN 0 ELSE Len(Head(tables)) + SumOfRows(Tail(tables))

\* C11: a multi-page extraction in vertical mode without transposition
\* leaves in table_data the rows of the per-page grids one page after the
\* other in ascending page index, whatever the order in which the pages were
\* marked, every row as wide as in its page's grid and with the same cells;
\* the merged grid has as many rows as the per-page grids have together.
C11_VerticalMerge ==
  [][\A keys \in KeyOrders(DOMAIN page_markers), mode \in ExtractionModes :
       (/\ extract_from_marked_pages(keys, mode,
              [ok |-> TRUE, merge_mode |-> "vertical", transpose |-> FALSE])
        /\ RowsFromPage(0, mode) # <<>>)
       => /\ table_data' = RowsFromPage(0, mode)
          /\ Len(table_data') = SumOfRows(all_tables')
    ]_vars

\* Two marked pages, the first with a grid of two rows of two columns, the
\* second with a grid of one row of one column, merged into three rows that
\* keep their widths, the page numbers in place.
C11_Witness ==
  /\ DOMAIN page_markers = Pages
  /\ Len(all_tables) = 2
  /\ Len(table_data) = 3
  /\ Len(table_data[1]) = 2
  /\ Len(table_data[2]) = 2
  /\ Len(table_data[3]) = 1
  /\ table_data[1][1] = <<"0">>
  /\ table_data[3][1] = <<"1">>

\* The n-th marked page in ascending order.
NthMarkedPage(n) ==
  CHOOSE p \in DOMAIN page_markers :
    Cardinality({q \in DOMAIN page_markers : q < p}) = n - 1

\* C13: a multi-page extraction over k marked pages hands k grids to the
\* merge, the n-th of them with the dimensions the n-th marked page's markers
\* imply; a marked page from which no grid could be extracted contributes an
\* empty grid of these dimensions instead of being skipped.
C13_OneGridPerMarkedPage ==
  [][(\E keys \in KeyOrders(DOMAIN page_markers), mode \in ExtractionModes,
         options \in {o \in MultipageOptions : o.ok} :
           extract_from_marked_pages(keys, mode, options))
     => /\ Len(all_tables') = Cardinality(DOMAIN page_markers)
        /\ \A n \in 1..Len(all_tables') :
             LET p == NthMarkedPage(n)
             IN IsGrid(all_tables'[n], grid_size(page_markers[p].rows),
                       grid_size(page_markers[p].columns))
    ]_vars

\* ------------------------------------------------- transposition
\* What TableExtractor.transpose_table leaves in app.table_data: the table
\* itself when there is none or it has no cell (a warning is shown), its
\* transposition otherwise.
transpose_table_data(table) ==
  LET rows == Len(table)
      cols == IF table # <<>>
              THEN Max({Len(table[r]) : r \in 1..Len(table)})
              ELSE 0
  IN IF table = <<>> \/ rows = 0 \/ cols = 0 THEN table ELSE transposed(table)

\* TableExtractor.transpose_table
transpose_table ==
  /\ table_data' = transpose_table_data(table_data)
  /\ table_data_rows' = IF table_data = <<>> \/ Width(table_data) = 0
                        THEN table_data_rows
                        ELSE <<>>
  /\ UNCHANGED <<sessionVars, mergeVars, lineVars, orientVars, manualFrame, pdf_pages, text_page, extraction_mode,
                 page_table>>

\* Any extracted or merged table: up to MaxRows rows of up to MaxWidth cells,
\* the cell in row r, column c holding the characters 1, r, c.
InitTranspose ==
  /\ pdf_document = TRUE
  /\ total_pages = NumPages
  /\ current_page = 0
  /\ zoom_factor = <<1000, 0>>
  /\ column_markers = <<>>
  /\ row_markers = <<>>
  /\ selection_mode = "none"
  /\ marker_history = <<>>
  /\ page_markers = NoPageMarkers
  /\ markers_shared = FALSE
  /\ pdf_pages = BlankPages(NumPages)
  /\ text_page = <<>>
  /\ extraction_mode = "unset"
  /\ table_data \in {GridOfShape(1, shape) : shape \in Shapes}
  /\ page_table = <<>>
  /\ all_tables = <<>>
  /\ merged_table = <<>>
  /\ NoDetection
  /\ FreshManagers

NextTranspose == transpose_table

SpecTranspose == InitTranspose /\ [][NextTranspose]_vars

IsRectangular(table) ==
  \A r \in 1..Len(table) : Len(table[r]) = Len(table[1])

\* C12: transposing a grid G of r rows whose widest row has c cells, ragged
\* or not, gives a grid T of c rows of r cells with T[j][i] = G[i][j] where
\* G has that cell and the empty string where it has not; transposing the
\* transposition of a rectangular grid gives the grid back; a grid without
\* rows or without cells is rejected and table_data stays as it was.
C12_Transpose ==
  [][transpose_table
     => IF table_data = <<>> \/ Width(table_data) = 0
        THEN table_data' = table_data
        ELSE /\ Len(table_data') = Width(table_data)
             /\ \A j \in 1..Len(table_data') :
                  /\ Len(table_data'[j]) = Len(table_data)
                  /\ \A i \in 1..Len(table_data) :
                       table_data'[j][i] = IF j <= Len(table_data[i])
                                           THEN table_data[i][j]
                                           ELSE <<>>
             /\ IsRectangular(table_data)
                  => transpose_table_data(table_data') = table_data
    ]_vars

\* The transposition of the ragged grid with rows of 3 and 1 cells: 3 rows of
\* 2 cells, the cells the second row lacked empty.
C12_Witness ==
  /\ Len(table_data) = 3
  /\ \A j \in 1..3 : Len(table_data[j]) = 2
  /\ table_data[1] = << <<"1", "1", "1">>, <<"1", "2", "1">> >>
  /\ table_data[2] = << <<"1", "1", "2">>, <<>> >>
  /\ table_data[3] = << <<"1", "1", "3">>, <<>> >>

\* ------------------------------------------------ line detection
\* An image is white with ink strokes on it: its size, the ink's RGB value
\* and the strokes. A stroke [dir |-> "v", at |-> x, len |-> n] inks the
\* pixels (x, 0) .. (x, n - 1), one with dir "h" the pixels (0, y) .. (n - 1, y).
White == <<255, 255, 255>>

\* img_array[y, x]
pixel(img, x, y) ==
  IF \E st \in img.strokes :
       \/ st.dir = "v" /\ st.at = x /\ y < st.len
       \/ st.dir = "h" /\ st.at = y /\ x < st.len
  THEN img.ink ELSE White

\* The image with rows and columns exchanged: the code for the horizontal
\* lines is the code for the vertical ones with x and y, width and height
\* exchanged.
flipped(img) ==
  [width |-> img.height, height |-> img.width, ink |-> img.ink,
   strokes |-> {[dir |-> IF st.dir = "v" THEN "h" ELSE "v",
                 at |-> st.at, len |-> st.len] : st \in img.strokes}]

\* pixel_intensity, in thousandths: 0.299 r + 0.587 g + 0.114 b
pixel_intensity(px) == 299 * px[1] + 587 * px[2] + 114 * px[3]

line_intensity_threshold == 160

\* line_percentage_threshold = 0.35, in percent
line_percentage_threshold == 35

\* "range(0, n, max(1, n // 200))"
sample_positions(n) == {k \in 0..(n - 1) : k % Max({1, n \div 200}) = 0}

\* vertical_projection: for every column the darkness 255 - intensity summed
\* over the sampled rows, in thousandths. A pixel is inked or white, so the
\* sum is each of the two darknesses times the number of samples that have it.
vertical_projection(img) ==
  LET samples == sample_positions(img.height)
      darkness(px) == 255000 - pixel_intensity(px)
      count(x, px) == Cardinality({y \in samples : pixel(img, x, y) = px})
  IN [x \in 0..(img.width - 1) |->
        IF img.ink = White THEN darkness(White) * Cardinality(samples)
        ELSE darkness(img.ink) * count(x, img.ink)
               + darkness(White) * count(x, White)]

\* list[i] for i >= -1: Python counts a negative index from the end.
item(list, n, i) == list[IF i < 0 THEN n + i ELSE i]

\* max_darkness
max_darkness(projection) == Max({projection[k] : k \in DOMAIN projection})

\* "normalized[x] > 0.3" for normalized[x] = projection[x] / max_darkness; the
\* division of 0.0 by 0.0 gives nan, which compares False with everything.
reasonably_dark(projection, darkest, x) ==
  darkest > 0 /\ 10 * projection[x] > 3 * darkest

\* The left half of the local-maximum test at x: a rise, or a plateau after
\* a rise.
rises_at(projection, n, x) ==
  \/ projection[x] > projection[x - 1]
  \/ /\ projection[x] = projection[x - 1]
     /\ projection[x - 1] > item(projection, n, x - 2)

\* The right half of the test reads normalized[x + 2] when the value at x
\* equals the one at x + 1.
reads_beyond(projection, x) ==
  /\ ~(projection[x] > projection[x + 1])
  /\ projection[x] = projection[x + 1]

\* The loop over range(1, n - 1) raises IndexError when it reads
\* normalized[n], which it does at x = n - 2 only.
peaks_raise(projection, n) ==
  /\ n >= 3
  /\ reasonably_dark(projection, max_darkness(projection), n - 2)
  /\ rises_at(projection, n, n - 2)
  /\ reads_beyond(projection, n - 2)

\* The local maxima of a projection whose largest value is darkest.
local_maxima(projection, n, darkest) ==
  {x \in 1..(n - 2) :
     /\ reasonably_dark(projection, darkest, x)
     /\ rises_at(projection, n, x)
     /\ \/ projection[x] > projection[x + 1]
        \/ /\ projection[x] = projection[x + 1]
           /\ x + 2 < n
           /\ projection[x + 1] > projection[x + 2]}

\* The candidates the projection gives, when the loop does not raise.
projection_peaks(projection, n) ==
  local_maxima(projection, n, max_darkness(projection))

\* slice_positions
slice_positions(n) == <<0, n \div 4, n \div 2, (n * 3) \div 4, n - 1>>

\* The edge test on the row y_pos at x: "significant darkening" against the
\* pixel before or the pixel after.
darkens_at(img, x, y_pos) ==
  LET prev_intensity == pixel_intensity(pixel(img, x - 1, y_pos))
      curr_intensity == pixel_intensity(pixel(img, x, y_pos))
      next_intensity == pixel_intensity(pixel(img, x + 1, y_pos))
  IN \/ /\ prev_intensity - curr_intensity > 30000
        /\ curr_intensity < 1000 * line_intensity_threshold
     \/ /\ next_intensity - curr_intensity > 30000
        /\ curr_intensity < 1000 * line_intensity_threshold

\* The members of a set of numbers in ascending order.
RECURSIVE Ascending(_)
Ascending(S) ==
  IF S = {} THEN <<>> ELSE <<Min(S)>> \o Ascending(S \ {Min(S)})

\* The positions one slice adds to the candidates.
slice_edges(img, y_pos) ==
  Ascending({x \in 1..(img.width - 2) : darkens_at(img, x, y_pos)})

\* vertical_candidates: the projection's peaks, then the darkening positions
\* of the five slices, slice after slice.
vertical_candidates(img) ==
  Ascending(projection_peaks(vertical_projection(img), img.width))
    \o slice_edges(img, slice_positions(img.height)[1])
    \o slice_edges(img, slice_positions(img.height)[2])
    \o slice_edges(img, slice_positions(img.height)[3])
    \o slice_edges(img, slice_positions(img.height)[4])
    \o slice_edges(img, slice_positions(img.height)[5])

\* The sampling paths of a candidate: itself and up to MaxOffset pixels to
\* either side, as far as they are inside the image.
MaxOffset == 5

sampling_paths(x, n) ==
  {x} \cup {x - offset : offset \in {o \in 1..MaxOffset : x - o >= 0}}
      \cup {x + offset : offset \in {o \in 1..MaxOffset : x + o < n}}

\* One sampling path passes: dark_pixels / len(samples) >= 0.35.
path_is_dark(img, path_x) ==
  LET samples == sample_positions(img.height)
      dark_pixels == Cardinality({y \in samples :
                        pixel_intensity(pixel(img, path_x, y))
                          < 1000 * line_intensity_threshold})
  IN 100 * dark_pixels >= line_percentage_threshold * Cardinality(samples)

\* is_valid_vertical_line with the candidate's own column as only path.
is_valid_vertical_line_centre(img, x) == path_is_dark(img, x)

\* is_valid_vertical_line
is_valid_vertical_line(img, x) ==
  \E path_x \in sampling_paths(x, img.width) : path_is_dark(img, path_x)

\* The loop of cluster_lines over sorted_lines[1:]: a line joins the last
\* cluster when it is within the threshold of that cluster's first member.
RECURSIVE grouped_from_first(_, _, _)
grouped_from_first(clusters, rest, distance_threshold) ==
  IF rest = <<>> THEN clusters
  ELSE LET line == Head(rest)
           last == clusters[Len(clusters)]
       IN IF line - last[1] <= distance_threshold
          THEN grouped_from_first([clusters EXCEPT ![Len(clusters)] = Append(@, line)],
                                  Tail(rest), distance_threshold)
          ELSE grouped_from_first(Append(clusters, <<line>>), Tail(rest),
                                  distance_threshold)

\* The loop of cluster_lines over sorted_lines[1:]:
\* "if line - clusters[-1][-1] <= distance_threshold".
RECURSIVE grouped(_, _, _)
grouped(clusters, rest, distance_threshold) ==
  IF rest = <<>> THEN clusters
  ELSE LET line == Head(rest)
           last == clusters[Len(clusters)]
       IN IF line - last[Len(last)] <= distance_threshold
          THEN grouped([clusters EXCEPT ![Len(clusters)] = Append(@, line)],
                       Tail(rest), distance_threshold)
          ELSE grouped(Append(clusters, <<line>>), Tail(rest),
                       distance_threshold)

\* The clusters of the sorted lines: the first line starts the first one.
clusters_of(sorted_lines, distance_threshold) ==
  grouped(<< <<sorted_lines[1]>> >>, Tail(sorted_lines), distance_threshold)

\* "rep = cluster[len(cluster) // 2]" for every cluster
representative_lines(clusters) ==
  [k \in 1..Len(clusters) |-> clusters[k][(Len(clusters[k]) \div 2) + 1]]

\* cluster_lines without the grouping: the sorted candidates.
cluster_lines_ungrouped(lines, distance_threshold) == Sorted(lines)

\* cluster_lines
cluster_lines(lines, distance_threshold) ==
  IF lines = <<>> THEN <<>>
  ELSE representative_lines(clusters_of(Sorted(lines), distance_threshold))

\* The threshold the detector computes first, prints and never uses:
\* max(5, min(20, int(min_dimension * 0.03))).
cluster_threshold(width) == Max({5, Min({20, (3 * width) \div 100})})

\* "v_tolerance = max(3, int(width * 0.01))"
v_tolerance(width) == Max({3, width \div 100})

\* clustered_vertical_candidates
clustered_vertical_candidates(img) ==
  cluster_lines(vertical_candidates(img), v_tolerance(img.width))

\* The candidates of clustered that pass "0 <= x < width and
\* is_valid_vertical_line(x)", sorted.
verified_lines(img, clustered) ==
  LET Passes(x) == 0 <= x /\ x < img.width /\ is_valid_vertical_line(img, x)
  IN Sorted(SelectSeq(clustered, Passes))

\* verified_vertical_lines
verified_vertical_lines(img) ==
  verified_lines(img, clustered_vertical_candidates(img))

\* Whether analyze_image_borders raises: in the vertical or in the
\* horizontal projection's loop.
detector_raises(img) ==
  \/ peaks_raise(vertical_projection(img), img.width)
  \/ peaks_raise(vertical_projection(flipped(img)), img.height)

\* What analyze_image_borders stores, raised telling whether it raised.
detector_result(img, raised) ==
  [raised |-> raised,
   vertical_lines |-> IF raised THEN <<>> ELSE verified_vertical_lines(img),
   horizontal_lines |-> IF raised THEN <<>>
                        ELSE verified_vertical_lines(flipped(img))]

\* LineDetector.analyze_image_borders: whether it raises, and the lists it
\* stores when it does not.
analyze_image_borders(img) == detector_result(img, detector_raises(img))

\* --------------------------------------------- the selected area
\* fixed_crop = 3 and max_crop_percent = 0.05: the crop min(3, 0.05 * side)
\* of a selection side, in twentieths of a document unit.
crop20(side) == Min({60, side})

\* processing_zoom = max(8.0, zoom_factor), for a zoom factor below 8
processing_zoom == 8

\* The side of the cropped rendering, in pixels, for the selection lo..hi:
\* int(hi * zoom) - int(lo * zoom) - 2 * int(crop * zoom).
rendered_side(lo, hi) ==
  processing_zoom * hi - processing_zoom * lo
    - 2 * ((processing_zoom * crop20(hi - lo)) \div 20)

\* "int(x1_cropped + (x_rel * scale_factor))" for scale_factor = doc_width /
\* img_width: origin20 is the cropped region's origin and doc_width20 its
\* width, both in twentieths. The float sum and its exact value have the same
\* integer part for the selections drawn here.
to_pdf(origin20, doc_width20, img_width, rel) ==
  (origin20 * img_width + rel * doc_width20) \div (20 * img_width)

\* The document positions of the detected lines rels along an axis whose
\* selection side starts at lo; the scale factor is that of the x axis.
mapped_lines(sel, lo, hi, img_width, rels) ==
  LET x1_cropped20 == 20 * sel.x1 + crop20(sel.x2 - sel.x1)
      x2_cropped20 == 20 * sel.x2 - crop20(sel.x2 - sel.x1)
      doc_width20 == x2_cropped20 - x1_cropped20
  IN [k \in 1..Len(rels) |->
        to_pdf(20 * lo + crop20(hi - lo), doc_width20, img_width, rels[k])]

\* The working state apply_detected_lines leaves for the detected lines found.
applied_lines(sel, img_width, found, clear) ==
  apply_detected_lines(Working, clear, sel.x1, sel.y1, sel.x2, sel.y2,
                       mapped_lines(sel, sel.x1, sel.x2, img_width,
                                    found.vertical_lines),
                       mapped_lines(sel, sel.y1, sel.y2, img_width,
                                    found.horizontal_lines))

\* The end of process_selected_area: the error dialog when the detector
\* raised; otherwise the detected lines are stored and the working state s
\* of apply_detected_lines is put in place.
store_lines(found, s, shared) ==
  IF found.raised
  THEN /\ detection_error' = TRUE
       /\ UNCHANGED <<column_markers, row_markers, marker_history,
                      markers_shared, page_markers, detected_vertical_lines,
                      detected_horizontal_lines>>
  ELSE /\ detection_error' = FALSE
       /\ detected_vertical_lines' = found.vertical_lines
       /\ detected_horizontal_lines' = found.horizontal_lines
       /\ column_markers' = s.c
       /\ row_markers' = s.r
       /\ marker_history' = s.h
       /\ markers_shared' = shared
       /\ page_markers' = WriteThrough(page_markers, shared, current_page,
                                       s.c, s.r)

\* process_selected_area once the detector's result found is known.
process_found(found, clear) ==
  store_lines(found,
              applied_lines(selection, processed_image.width, found, clear),
              IF clear THEN FALSE ELSE markers_shared)

\* AreaProcessor.process_selected_area for the selection made, processed_image
\* being its cropped rendering: the detector's analysis, then
\* apply_detected_lines with the user's answer clear; an exception of the
\* detector ends in the error dialog.
process_selection(clear) ==
  /\ pdf_document
  /\ selection.made
  /\ process_found(analyze_image_borders(processed_image), clear)
  /\ UNCHANGED <<pdf_document, total_pages, current_page, zoom_factor,
                 selection_mode, selection, processed_image>>
  /\ UNCHANGED <<gridVars, mergeVars, orientVars, configVars>>

\* The selections: from the corner (o, o), o up to MaxSelectionOrigin, of
\* the sizes below; 69 units render to 504 pixels.
MaxSelectionOrigin == 0

SelectionSizes == {<<1, 1>>, <<3, 1>>, <<1, 3>>, <<69, 1>>}

Selections ==
  {[made |-> TRUE, x1 |-> o, y1 |-> o, x2 |-> o + size[1], y2 |-> o + size[2]] :
     o \in 0..MaxSelectionOrigin, size \in SelectionSizes}

\* The strokes an image of a given size can carry: at the second pixel, the
\* seventh and eighth and the last two of a side, a quarter or two fifths
\* of the other side long.
StrokePlaces(n) == {k \in {1, 6, 7, n - 2, n - 1} : 0 <= k /\ k < n}

StrokeLengths(n) == {n \div 4, (2 * n) \div 5 + 1}

Strokes(width, height) ==
  {[dir |-> "v", at |-> x, len |-> n] :
     x \in StrokePlaces(width), n \in StrokeLengths(height)}
  \cup {[dir |-> "h", at |-> y, len |-> n] :
          y \in StrokePlaces(height), n \in StrokeLengths(width)}

MaxStrokes == 2

\* The sets of up to n strokes out of S.
RECURSIVE StrokeSets(_, _)
StrokeSets(S, n) ==
  IF n = 0 THEN {{}}
  ELSE StrokeSets(S, n - 1)
         \cup {d \cup {st} : d \in StrokeSets(S, n - 1), st \in S}

\* A comb: three vertical strokes of one length, at the second, the seventh
\* and the eighth column.
Combs(width, height) ==
  {{[dir |-> "v", at |-> x, len |-> n] : x \in {1, 6, 7}} :
     n \in StrokeLengths(height)}

\* 159 is the darkest gray below the intensity threshold, 160 is not below it.
Inks == {<<159, 159, 159>>, <<160, 160, 160>>}

\* The image of a given size, ink and strokes.
Drawing(width, height, ink, drawn) ==
  [width |-> width, height |-> height, ink |-> ink, strokes |-> drawn]

\* The images of a given size: up to MaxStrokes strokes of one ink, or a comb.
Drawings(width, height) ==
  {Drawing(width, height, ink, drawn) :
     ink \in Inks,
     drawn \in StrokeSets(Strokes(width, height), MaxStrokes)
                 \cup Combs(width, height)}

\* The cropped renderings of a selection.
Renderings(sel) ==
  Drawings(rendered_side(sel.x1, sel.x2), rendered_side(sel.y1, sel.y2))

\* A loaded page without markers, an area selected on it.
InitLines ==
  /\ pdf_document = TRUE
  /\ total_pages = NumPages
  /\ current_page = 0
  /\ zoom_factor = <<1000, 0>>
  /\ column_markers = <<>>
  /\ row_markers = <<>>
  /\ selection_mode = "area"
  /\ marker_history = <<>>
  /\ page_markers = NoPageMarkers
  /\ markers_shared = FALSE
  /\ pdf_pages = BlankPages(NumPages)
  /\ text_page = <<>>
  /\ extraction_mode = "unset"
  /\ table_data = <<>>
  /\ page_table = <<>>
  /\ all_tables = <<>>
  /\ merged_table = <<>>
  /\ selection \in Selections
  /\ processed_image \in Renderings(selection)
  /\ detected_vertical_lines = <<>>
  /\ detected_horizontal_lines = <<>>
  /\ detection_error = FALSE
  /\ FreshManagers

NextLines == \E clear \in BOOLEAN : process_selection(clear)

SpecLines == InitLines /\ [][NextLines]_vars

\* The positions of a sorted list at which a group starts: the first, and
\* every one further than the threshold from the position before it.
GroupStarts(sorted, threshold) ==
  {i \in 1..Len(sorted) : i = 1 \/ sorted[i] - sorted[i - 1] > threshold}

\* The last position of the group that starts at a.
GroupEnd(sorted, starts, a) ==
  Min({b \in a..Len(sorted) : b = Len(sorted) \/ (b + 1) \in starts})

\* The median member of the group a..b of a sorted list: the middle one,
\* the upper of the two middle ones when the group's size is even.
MedianMember(sorted, a, b) == sorted[a + ((b - a + 1) \div 2)]

\* The median members of the maximal groups with the given starts.
MediansOf(sorted, starts, order) ==
  [k \in 1..Len(order) |->
     MedianMember(sorted, order[k], GroupEnd(sorted, starts, order[k]))]

\* The median members of the maximal groups of a sorted list in which each
\* member is within the threshold of the member before it.
GroupMedians(sorted, threshold) ==
  MediansOf(sorted, GroupStarts(sorted, threshold),
            Ascending(GroupStarts(sorted, threshold)))

\* The clustered candidates of an image are the group medians of its sorted
\* candidates for the threshold max(3, 1% of the width).
ClusteredAsSpecified(img) ==
  clustered_vertical_candidates(img)
    = GroupMedians(Sorted(vertical_candidates(img)),
                   Max({3, img.width \div 100}))

\* C14: clustering sorts the candidates, splits them into maximal groups in
\* which every candidate is within the threshold of the previous member of its
\* group, and returns each group's median member, [50, 52, 53, 120] with
\* threshold 5 giving [52, 120]; the detector's threshold is max(3, 1% of the
\* width) for the vertical and max(3, 1% of the height) for the horizontal
\* candidates.
C14_Clustering ==
  /\ cluster_lines(<<50, 52, 53, 120>>, 5) = <<52, 120>>
  /\ ~detector_raises(processed_image) =>
       /\ ClusteredAsSpecified(processed_image)
       /\ ClusteredAsSpecified(flipped(processed_image))

\* A processed image 504 pixels wide, so that the threshold is 5, whose
\* candidates 1, 6 and 7 form one group although 7 is further than 5 from 1.
C14_Witness ==
  /\ detection_error = FALSE
  /\ column_markers # <<>>
  /\ v_tolerance(processed_image.width) = 5
  /\ {1, 6, 7} \subseteq Range(vertical_candidates(processed_image))
  /\ clustered_vertical_candidates(processed_image) = <<6>>

\* The share of the stride-sampled pixels of column x with grayscale intensity
\* below 160 is at least 35%.
DarkEnough(img, x) ==
  LET rows == {y \in 0..(img.height - 1) :
                 y % Max({1, img.height \div 200}) = 0}
      below == {y \in rows : pixel_intensity(pixel(img, x, y)) < 160000}
  IN 100 * Cardinality(below) >= 35 * Cardinality(rows)

\* Some sampling path at offset -5..+5 from rep inside the image is dark enough.
SomePathDarkEnough(img, rep) ==
  \E offset \in (-5)..5 :
     /\ 0 <= rep + offset
     /\ rep + offset < img.width
     /\ DarkEnough(img, rep + offset)

\* The reported lines are the representatives with a dark enough path.
ReportedAsSpecified(img, representatives, reported) ==
  /\ Range(reported) \subseteq Range(representatives)
  /\ \A rep \in Range(representatives) :
        rep \in Range(reported) <=> SomePathDarkEnough(img, rep)

\* C15: once process_selected_area has stored the detected lines, a cluster
\* representative is among them if and only if at least one sampling path at
\* offset -5..+5 from it inside the image has at least 35% of its sampled
\* pixels below intensity 160; this holds for the vertical and for the
\* horizontal lines.
C15_Verification ==
  column_markers # <<>> =>
    /\ ReportedAsSpecified(processed_image,
                           clustered_vertical_candidates(processed_image),
                           detected_vertical_lines)
    /\ ReportedAsSpecified(flipped(processed_image),
                           clustered_vertical_candidates(flipped(processed_image)),
                           detected_horizontal_lines)

\* The detected lines are stored; a vertical representative whose own column
\* is too light is reported because of a path beside it, and a horizontal
\* representative is not reported.
C15_Witness ==
  /\ column_markers # <<>>
  /\ \E rep \in Range(clustered_vertical_candidates(processed_image)) :
        /\ rep \in Range(detected_vertical_lines)
        /\ ~path_is_dark(processed_image, rep)
  /\ \E rep \in Range(clustered_vertical_candidates(flipped(processed_image))) :
        rep \notin Range(detected_horizontal_lines)

\* C16: line detection never fails: for every image, a uniformly white one,
\* one with a dark band on its last two columns or rows and one smaller than
\* 200 pixels included, analyze_image_borders completes without raising, so
\* that process_selected_area never ends in its error dialog.
C16_DetectionNeverFails ==
  /\ ~analyze_image_borders(processed_image).raised
  /\ detection_error = FALSE

\* C17: when process_selected_area has applied the detected lines, the four
\* boundaries of the selection are markers: x1 and x2 are working column
\* markers and y1 and y2 working row markers, with or without a detected
\* line and whatever the user answered to the question about clearing.
C17_BoundariesAreMarkers ==
  [][detection_error' = FALSE =>
       /\ {selection.x1, selection.x2} \subseteq Range(column_markers')
       /\ {selection.y1, selection.y2} \subseteq Range(row_markers')]_vars

\* No line was detected, and the markers are the selection's boundaries.
C17_Witness ==
  /\ detection_error = FALSE
  /\ detected_vertical_lines = <<>>
  /\ detected_horizontal_lines = <<>>
  /\ column_markers = <<selection.x1, selection.x2>>
  /\ row_markers = <<selection.y1, selection.y2>>
  /\ Len(marker_history) = 4

\* The cropped region's origin along a selection side lo..hi and the cropped
\* region's document width, in twentieths of a document unit.
CroppedOrigin20(lo, hi) == 20 * lo + crop20(hi - lo)

CroppedWidth20(sel) == 20 * (sel.x2 - sel.x1) - 2 * crop20(sel.x2 - sel.x1)

\* The marker m is origin + p * (document width / image width), exactly.
IsMappedValue(origin20, doc_width20, img_width, p, m) ==
  20 * m * img_width = origin20 * img_width + p * doc_width20

\* C18: the marker stored for a detected pixel position p equals
\* cropped_region_origin + p * (cropped_region_document_width /
\* cropped_image_pixel_width): every detected vertical line has a column
\* marker of that value and every detected horizontal line a row marker.
C18_MarkerIsMappedValue ==
  column_markers # <<>> =>
    /\ \A p \in Range(detected_vertical_lines) :
          \E m \in Range(column_markers) :
             IsMappedValue(CroppedOrigin20(selection.x1, selection.x2),
                           CroppedWidth20(selection), processed_image.width,
                           p, m)
    /\ \A p \in Range(detected_horizontal_lines) :
          \E m \in Range(row_markers) :
             IsMappedValue(CroppedOrigin20(selection.y1, selection.y2),
                           CroppedWidth20(selection), processed_image.width,
                           p, m)

\* C19: extraction is rejected whenever an axis has fewer than two markers,
\* exactly one marker included: such a step leaves table_data, the markers
\* and the history as they were.
C19_TooFewMarkersRejected ==
  [][(Len(column_markers) < 2 \/ Len(row_markers) < 2) =>
       UNCHANGED <<table_data, column_markers, row_markers,
                   marker_history>>]_vars

\* The newest history entry names a value that is not in the list of its type.
StaleEntry(s) ==
  /\ s.h # <<>>
  /\ IsNew(s, s.h[Len(s.h)])

\* Additions and undos work on the working state s: an accepted click adds
\* its value with one history entry, and the next undo takes it back.
AddAndUndoWork(s) ==
  \A e \in HistoryEntries :
     IsNew(s, e) =>
       /\ ~IsNew(clicked(s, e), e)
       /\ clicked(s, e).h = Append(s.h, e)
       /\ undo_marker(clicked(s, e)) = s

\* What an undo that finds nothing to remove leaves of s: the markers, and
\* the history without its newest entry.
AfterStaleUndo(s) ==
  [c |-> s.c, r |-> s.r, h |-> SubSeq(s.h, 1, Len(s.h) - 1)]

\* C20: an undo whose popped history entry names a value that is not in the
\* marker list of its type leaves both marker lists unchanged, only the
\* popped entry leaves the history, and additions and undos keep working
\* afterwards; an undo with an empty history changes nothing.
C20_StaleUndoIsNoOp ==
  /\ marker_history = <<>> => undo_marker(Working) = Working
  /\ StaleEntry(Working) =>
       /\ undo_marker(Working) = AfterStaleUndo(Working)
       /\ AddAndUndoWork(undo_marker(Working))

\* Markers of both types beside a history whose newest entry names a column
\* value that is not a column marker.
C20_Witness ==
  /\ StaleEntry(Working)
  /\ marker_history[Len(marker_history)].type = "column"
  /\ column_markers # <<>>
  /\ row_markers # <<>>
  /\ Len(marker_history) = 2

\* ------------------------------------- the orientation corrector
\* [a-zA-Z]
Letters ==
  {"a", "b", "c", "d", "e", "f", "g", "h", "i", "j", "k", "l", "m", "n", "o",
   "p", "q", "r", "s", "t", "u", "v", "w", "x", "y", "z",
   "A", "B", "C", "D", "E", "F", "G", "H", "I", "J", "K", "L", "M", "N", "O",
   "P", "Q", "R", "S", "T", "U", "V", "W", "X", "Y", "Z"}

DigitChars == {"0", "1", "2", "3", "4", "5", "6", "7", "8", "9"}

\* sep.join(parts)
RECURSIVE joined_by(_, _)
joined_by(parts, sep) ==
  IF parts = <<>> THEN <<>>
  ELSE IF Len(parts) = 1 THEN parts[1]
  ELSE parts[1] \o sep \o joined_by(Tail(parts), sep)

\* "all_text = ' '.join([''.join([cell for cell in row if cell]) for row in
\* table_data])"
all_text_of(table) ==
  joined_by([r \in 1..Len(table) |-> joined(table[r])], <<" ">>)

\* text[i:].startswith(word), i counted from 1
starts_at(text, i, word) ==
  /\ i + Len(word) - 1 <= Len(text)
  /\ \A k \in 1..Len(word) : text[i + k - 1] = word[k]

\* text.count(word): the occurrences found from left to right, none
\* overlapping the one before.
RECURSIVE count_from(_, _, _)
count_from(text, i, word) ==
  IF i + Len(word) - 1 > Len(text) THEN 0
  ELSE IF starts_at(text, i, word)
  THEN 1 + count_from(text, i + Len(word), word)
  ELSE count_from(text, i + 1, word)

\* The number of repetitions of "\s[a-zA-Z]\s" that start at i.
RECURSIVE single_char_units(_, _)
single_char_units(text, i) ==
  IF /\ i + 2 <= Len(text)
     /\ text[i] \in Whitespace
     /\ text[i + 1] \in Letters
     /\ text[i + 2] \in Whitespace
  THEN 1 + single_char_units(text, i + 3)
  ELSE 0

\* len(re.compile(r'(?:\s[a-zA-Z]\s){3,}').findall(text)), searched from i
RECURSIVE single_char_matches(_, _)
single_char_matches(text, i) ==
  IF i > Len(text) THEN 0
  ELSE IF single_char_units(text, i) >= 3
  THEN 1 + single_char_matches(text, i + 3 * single_char_units(text, i))
  ELSE single_char_matches(text, i + 1)

\* len(re.compile(r'[a-zA-Z]\n[a-zA-Z]').findall(text)), searched from i
RECURSIVE newline_matches(_, _)
newline_matches(text, i) ==
  IF i + 2 > Len(text) THEN 0
  ELSE IF text[i] \in Letters /\ text[i + 1] = "\n" /\ text[i + 2] \in Letters
  THEN 1 + newline_matches(text, i + 3)
  ELSE newline_matches(text, i + 1)

\* common_reversed
common_reversed ==
  << <<"e", "h", "t">>, <<"d", "n", "a">>, <<"r", "o", "f">>,
     <<"e", "r", "a">>, <<"e", "l", "b", "a", "T">>,
     <<"e", "g", "a", "P">>, <<"t", "x", "e", "T">>,
     <<"a", "t", "a", "D">> >>

RECURSIVE reversed_words(_, _)
reversed_words(text, k) ==
  IF k = 0 THEN 0
  ELSE count_from(text, 1, common_reversed[k]) + reversed_words(text, k - 1)

\* char_count of a letter, counted on all_text.lower()
char_count(text, lower, upper) ==
  Cardinality({i \in 1..Len(text) : text[i] = lower \/ text[i] = upper})

\* span.get("dir", [0, 0, 0])
span_dir(span) == IF "dir" \in DOMAIN span THEN span.dir ELSE <<0, 0, 0>>

\* "height > width * 3 and height > 20"
tall_span(span) ==
  /\ span.y1 - span.y0 > (span.x1 - span.x0) * 3
  /\ span.y1 - span.y0 > 20

\* TextOrientationCorrector.detect_text_orientation_from_pdf: "vertical",
\* "rtl" or "none" for (False, None).
detect_text_orientation_from_pdf(loaded, page) ==
  IF ~loaded \/ ~page.readable THEN "none"
  ELSE LET spans == page.spans
           total_spans == Len(spans)
           vertical_spans ==
             Cardinality({i \in 1..Len(spans) : span_dir(spans[i])[2] < 0})
               + Cardinality({i \in 1..Len(spans) : tall_span(spans[i])})
           rtl_spans ==
             Cardinality({i \in 1..Len(spans) : span_dir(spans[i])[1] < 0})
       IN IF total_spans > 0 /\ 10 * vertical_spans > 3 * total_spans
          THEN "vertical"
          ELSE IF total_spans > 0 /\ 10 * rtl_spans > 3 * total_spans
          THEN "rtl"
          ELSE "none"

\* vertical_indicators of _analyze_text_orientation for the text all_text and
\* the result pdf_type of the direct detection.
vertical_indicators(all_text, pdf_type) ==
  single_char_matches(all_text, 1) * 2
    + reversed_words(all_text, Len(common_reversed)) * 3
    + (IF 2 * char_count(all_text, "n", "N") > 3 * char_count(all_text, "e", "E")
       THEN 5 ELSE 0)
    + newline_matches(all_text, 1)
    + (IF pdf_type = "vertical" THEN 10 ELSE 0)

\* The correction type for a text with the given indicators.
correction_type_of(all_text, indicators) ==
  IF Len(all_text) < 20 THEN "none"
  ELSE IF indicators >= 5 THEN "vertical"
  ELSE "none"

\* TextOrientationCorrector._analyze_text_orientation: the correction type,
\* "none" for (False, None).
analyze_text_orientation(table, pdf_type) ==
  correction_type_of(all_text_of(table),
                     vertical_indicators(all_text_of(table), pdf_type))

\* str.replace(' ', '')
without_spaces(str) == SelectSeq(str, LAMBDA ch : ch # " ")

\* re.match(r'([a-zA-Z] ){2,}[a-zA-Z]', cell): the pattern matches at the
\* start of the cell exactly when two letter-space pairs and a letter do.
alternating_pattern(cell) ==
  /\ Len(cell) >= 5
  /\ cell[1] \in Letters /\ cell[2] = " "
  /\ cell[3] \in Letters /\ cell[4] = " "
  /\ cell[5] \in Letters

\* str.isdigit()
isdigit(cell) == cell # <<>> /\ \A i \in 1..Len(cell) : cell[i] \in DigitChars

\* The lines from bottom to top with the characters of each line reversed
\* as well, as the forced routine joins them.
bottom_to_top_mirrored(lines) ==
  joined(SelectSeq([i \in 1..Len(lines) |-> reversed(strip(reversed(lines)[i]))],
                   LAMBDA l : l # <<>>))

\* "''.join(line.strip() for line in reversed(lines) if line.strip())"
bottom_to_top(lines) ==
  joined(SelectSeq([i \in 1..Len(lines) |-> strip(reversed(lines)[i])],
                   LAMBDA l : l # <<>>))

\* The body of that loop without the test of the length of the result.
vertical_text_of_unchecked(cell, lines) ==
  LET short_lines == {i \in 1..Len(lines) :
                        Len(strip(lines[i])) <= 2 /\ Len(strip(lines[i])) > 0}
  IN IF Len(lines) >= 3 /\ 5 * Cardinality(short_lines) > 3 * Len(lines)
     THEN bottom_to_top(lines)
     ELSE IF "\n" \notin Range(cell) /\ Len(cell) >= 3 /\ alternating_pattern(cell)
     THEN reversed(without_spaces(cell))
     ELSE cell

\* The body of the loop of _correct_vertical_text for the lines of a cell.
vertical_text_of(cell, lines) ==
  LET short_lines == {i \in 1..Len(lines) :
                        Len(strip(lines[i])) <= 2 /\ Len(strip(lines[i])) > 0}
  IN IF Len(lines) >= 3 /\ 5 * Cardinality(short_lines) > 3 * Len(lines)
     THEN IF Len(bottom_to_top(lines)) >= 3 THEN bottom_to_top(lines) ELSE cell
     ELSE IF "\n" \notin Range(cell) /\ Len(cell) >= 3 /\ alternating_pattern(cell)
     THEN reversed(without_spaces(cell))
     ELSE cell

\* One cell of TextOrientationCorrector._correct_vertical_text.
correct_vertical_cell(cell) ==
  IF cell = <<>> \/ Len(cell) < 3 \/ isdigit(cell) THEN cell
  ELSE vertical_text_of(cell, split_lines(cell))

\* One cell of TextOrientationCorrector._correct_rtl_text.
correct_rtl_cell(cell) == IF Len(cell) < 2 THEN cell ELSE reversed(cell)

\* One cell of TextOrientationCorrector._correct_flipped_text.
correct_flipped_cell(cell) ==
  IF Len(cell) < 2 THEN cell
  ELSE LET lines == reversed(split_lines(cell))
       IN joined_by([i \in 1..Len(lines) |-> reversed(lines[i])], <<"\n">>)

\* The correction correct_text_orientation applies for a correction type.
apply_correction(table, type) ==
  [r \in 1..Len(table) |->
     [c \in 1..Len(table[r]) |->
        CASE type = "vertical" -> correct_vertical_cell(table[r][c])
          [] type = "rtl" -> correct_rtl_cell(table[r][c])
          [] type = "flipped" -> correct_flipped_cell(table[r][c])
          [] OTHER -> table[r][c]]]

\* The correction type TextOrientationCorrector.correct_text_orientation
\* reaches for a grid on the current page.
correction_type(table, loaded, page) ==
  analyze_text_orientation(table, detect_text_orientation_from_pdf(loaded, page))

\* app.table_data after TextOrientationCorrector.correct_text_orientation.
orientation_corrected(table, loaded, page) ==
  IF table = <<>> THEN table
  ELSE apply_correction(table, correction_type(table, loaded, page))

\* TextOrientationCorrector.correct_text_orientation: the backup is taken
\* before the analysis, at every invocation that finds table data.
corrector_correct_text_orientation ==
  /\ table_data # <<>>
  /\ original_table_data' = table_data
  /\ assign_cells(orientation_corrected(table_data, pdf_document,
                                        pdf_pages[current_page]))
  /\ UNCHANGED <<sessionVars, mergeVars, lineVars, pdf_pages,
                 text_page, extraction_mode, page_table>>

\* TextOrientationCorrector.restore_original_text
restore_original_text ==
  /\ original_table_data # <<>>
  /\ table_data' = original_table_data
  /\ table_data_rows' = <<>>
  /\ UNCHANGED <<sessionVars, mergeVars, lineVars, orientVars, manualFrame,
                 pdf_pages, text_page, extraction_mode, page_table>>

\* TableExtractor.force_text_orientation_correction
force_text_orientation_correction ==
  /\ table_data # <<>>
  /\ assign_cells(correct_text_orientation(table_data))
  /\ UNCHANGED <<sessionVars, mergeVars, lineVars, orientVars,
                 pdf_pages, text_page, extraction_mode, page_table>>

\* The cells of the grids the corrector is run on: a word extracted one
\* letter per line from bottom to top, three lines of which the first read
\* holds words, three lines of which one holds two letters, letters
\* separated by spaces, an empty cell, and FillerLen times the same letter.
FillerLen == 15

VerticalWord == <<"e", "\n", "l", "\n", "b", "\n", "a", "\n", "T">>
WordsOnALine == <<"a", "\n", "b", "\n", "c", " ", "d", " ", "e">>
TwoLetterLine == <<"a", "b", "\n", "c", "\n", "d">>
SpacedLetters == <<"a", " ", "b", " ", "c">>
Filler(ch) == [i \in 1..FillerLen |-> ch]

OrientCells == {VerticalWord, WordsOnALine, TwoLetterLine, SpacedLetters, <<>>}
Fillers == {Filler("x"), Filler("n")}

OrientTables ==
  {<< <<cell, filler>> >> : cell \in OrientCells, filler \in Fillers}
    \cup {<< <<cell>>, <<filler>> >> : cell \in OrientCells, filler \in Fillers}
    \cup {<< <<VerticalWord, VerticalWord>>, <<VerticalWord, VerticalWord>> >>}

\* The pages the grid was extracted from: one span, upright, much taller
\* than wide, or written from right to left; or a page that cannot be read.
UprightSpan == [text |-> <<"a">>, x0 |-> 0, y0 |-> 0, x1 |-> 3, y1 |-> 3]
TallSpan == [text |-> <<"a">>, x0 |-> 0, y0 |-> 0, x1 |-> 3, y1 |-> 30]
RtlSpan ==
  [text |-> <<"a">>, x0 |-> 0, y0 |-> 0, x1 |-> 3, y1 |-> 3, dir |-> <<-1, 0, 0>>]

OrientPages ==
  {[readable |-> FALSE, spans |-> <<>>]}
    \cup {[readable |-> TRUE, spans |-> <<span>>] :
            span \in {UprightSpan, TallSpan, RtlSpan}}

\* A grid has been extracted from the first page; the corrector is fresh.
InitOrient ==
  /\ pdf_document = TRUE
  /\ total_pages = NumPages
  /\ current_page = 0
  /\ zoom_factor = <<1000, 0>>
  /\ column_markers = <<>>
  /\ row_markers = <<>>
  /\ selection_mode = "none"
  /\ marker_history = <<>>
  /\ page_markers = NoPageMarkers
  /\ markers_shared = FALSE
  /\ \E page \in OrientPages :
       /\ text_page = page.spans
       /\ pdf_pages = [p \in Pages |-> IF p = 0 THEN page ELSE BlankPage]
  /\ extraction_mode = "newline"
  /\ table_data \in OrientTables
  /\ page_table = <<>>
  /\ all_tables = <<>>
  /\ merged_table = <<>>
  /\ NoDetection
  /\ FreshManagers

NextOrient ==
  \/ corrector_correct_text_orientation
  \/ restore_original_text
  \/ force_text_orientation_correction

SpecOrient == InitOrient /\ [][NextOrient]_vars

\* ------------------------------------- claims on the corrector
\* The grid correct_text_orientation leaves for the grid of this state.
CorrectedOnce ==
  orientation_corrected(table_data, pdf_document, pdf_pages[current_page])

\* C21: the orientation correction is idempotent: run on the grid it has
\* just produced, correct_text_orientation changes no cell.
C21_CorrectionIsIdempotent ==
  orientation_corrected(CorrectedOnce, pdf_document, pdf_pages[current_page])
    = CorrectedOnce

\* C22: once a backup is retained, an invocation that leaves the grid as
\* it is leaves the backup as it is, so that restore_original_text still
\* returns the grid from before the correction that changed it.
C22_BackupSurvivesIdleRun ==
  [][(original_table_data # <<>> /\ table_data' = table_data)
       => original_table_data' = original_table_data]_vars

\* The pre-check of this state's page.
PreCheck == detect_text_orientation_from_pdf(pdf_document, pdf_pages[current_page])

\* C29: the analysis selects the RTL correction when the geometry pre-check
\* reports "rtl" for a grid with enough text to analyse.
C29_RtlSelected ==
  (/\ table_data # <<>>
   /\ Len(all_text_of(table_data)) >= 20
   /\ PreCheck = "rtl")
    => correction_type(table_data, pdf_document, pdf_pages[current_page]) = "rtl"

\* The stripped, non-empty lines of a cell in reverse line order, each with
\* its characters in their original order.
ReversedLines(cell) ==
  LET lines == split_lines(cell)
      kept == {i \in 1..Len(lines) : strip(lines[i]) # <<>>}
      RECURSIVE from(_)
      from(i) == IF i = 0 THEN <<>>
                 ELSE IF i \in kept THEN strip(lines[i]) \o from(i - 1)
                 ELSE from(i - 1)
  IN from(Len(lines))

\* C30: every multi-line cell changed by the detector-driven routine or by
\* the forced routine becomes its lines in reverse order, each line's
\* characters kept in their order.
C30_VerticalCorrectionReversesLines ==
  \A r \in 1..Len(table_data) : \A c \in 1..Len(table_data[r]) :
    LET cell == table_data[r][c]
    IN "\n" \in Range(cell) =>
         /\ correct_vertical_cell(cell) # cell
              => correct_vertical_cell(cell) = ReversedLines(cell)
         /\ corrected_cell(cell) # cell
              => corrected_cell(cell) = ReversedLines(cell)

\* The stripped, non-empty lines of a cell in their order, one after the
\* other.
LinesInOrder(cell) ==
  LET lines == split_lines(cell)
  IN joined(SelectSeq([i \in 1..Len(lines) |-> strip(lines[i])],
                      LAMBDA l : l # <<>>))

\* C30, amended: a multi-line cell changed by the detector-driven routine
\* becomes its lines in reverse order with each line's characters kept in
\* their order; one changed by the forced routine becomes the mirror image
\* of its lines read in order (reverse line order, each line reversed as
\* well), less every backslash followed by n.
C30_RoutinesReverseLines ==
  \A r \in 1..Len(table_data) : \A c \in 1..Len(table_data[r]) :
    LET cell == table_data[r][c]
    IN "\n" \in Range(cell) =>
         /\ correct_vertical_cell(cell) # cell
              => correct_vertical_cell(cell) = ReversedLines(cell)
         /\ corrected_cell(cell) # cell
              => corrected_cell(cell)
                   = without_escaped_newlines(reversed(LinesInOrder(cell)))

\* The corrector has changed a multi-line cell on which the two routines
\* differ.
C30_Witness ==
  /\ original_table_data # <<>>
  /\ \E r \in 1..Len(table_data) : \E c \in 1..Len(table_data[r]) :
       LET cell == original_table_data[r][c]
       IN /\ "\n" \in Range(cell)
          /\ table_data[r][c] # cell
          /\ table_data[r][c] = correct_vertical_cell(cell)
          /\ corrected_cell(cell) # cell
          /\ corrected_cell(cell) # correct_vertical_cell(cell)

\* ------------------------------------- the configuration file
\* In this part a marker value is <<n>> for the integer n and <<n, d>> for
\* the float n.d, so that the file keeps an integer apart from a float; a
\* file holds the text json.dump writes for a value, key by key.

\* str(k) of a page index, and the text of an integer in the file
RECURSIVE str_of(_)
str_of(n) ==
  IF n < 10 THEN <<Digits[n + 1]>>
  ELSE str_of(n \div 10) \o <<Digits[(n % 10) + 1]>>

digit_value(ch) == CHOOSE d \in 0..9 : Digits[d + 1] = ch

\* int(k) of a key of the file, and the integer a text of digits is read as
RECURSIVE int_of(_)
int_of(text) ==
  IF Len(text) = 1 THEN digit_value(text[1])
  ELSE 10 * int_of(SubSeq(text, 1, Len(text) - 1)) + digit_value(text[Len(text)])

\* json.dump of a number
dumped_number(v) ==
  IF Len(v) = 1 THEN str_of(v[1]) ELSE str_of(v[1]) \o <<".">> \o str_of(v[2])

\* A number read by the digits before the point alone.
loaded_integer(text) ==
  IF "." \in Range(text)
  THEN <<int_of(SubSeq(text, 1,
                       (CHOOSE i \in 1..Len(text) : text[i] = ".") - 1))>>
  ELSE <<int_of(text)>>

\* json.load of a number: a text with a point is read as a float
loaded_number(text) ==
  IF "." \in Range(text)
  THEN LET point == CHOOSE i \in 1..Len(text) : text[i] = "."
       IN <<int_of(SubSeq(text, 1, point - 1)),
            int_of(SubSeq(text, point + 1, Len(text)))>>
  ELSE <<int_of(text)>>

\* json.dump of the characters of a string: quote, backslash and line break
\* are written as a backslash and a character.
RECURSIVE escaped(_)
escaped(str) ==
  IF str = <<>> THEN <<>>
  ELSE (CASE Head(str) = "\"" -> <<"\\", "\"">>
          [] Head(str) = "\\" -> <<"\\", "\\">>
          [] Head(str) = "\n" -> <<"\\", "n">>
          [] OTHER -> <<Head(str)>>) \o escaped(Tail(str))

\* json.load of the characters between the quotes of a string
RECURSIVE unescaped(_)
unescaped(text) ==
  IF text = <<>> THEN <<>>
  ELSE IF text[1] = "\\" /\ Len(text) >= 2
  THEN <<IF text[2] = "n" THEN "\n" ELSE text[2]>>
         \o unescaped(SubSeq(text, 3, Len(text)))
  ELSE <<text[1]>> \o unescaped(Tail(text))

\* json.dump of a string
dumped_string(str) == <<"\"">> \o escaped(str) \o <<"\"">>

\* json.load of a string
loaded_string(text) == unescaped(SubSeq(text, 2, Len(text) - 1))

dumped_list(markers) == [i \in 1..Len(markers) |-> dumped_number(markers[i])]

loaded_list(texts) == [i \in 1..Len(texts) |-> loaded_number(texts[i])]

dumped_grid(grid) ==
  [r \in 1..Len(grid) |-> [c \in 1..Len(grid[r]) |-> dumped_string(grid[r][c])]]

loaded_grid(texts) ==
  [r \in 1..Len(texts) |-> [c \in 1..Len(texts[r]) |-> loaded_string(texts[r][c])]]

\* "{str(k): v for k, v in self.app.page_markers.items()}", as written
dumped_page_markers(pm) ==
  [k \in {str_of(p) : p \in DOMAIN pm} |->
     [columns |-> dumped_list(pm[int_of(k)].columns),
      rows |-> dumped_list(pm[int_of(k)].rows)]]

\* "{int(k): v for k, v in config['page_markers'].items()}", as read
loaded_page_markers(entries) ==
  [p \in {int_of(k) : k \in DOMAIN entries} |->
     [columns |-> loaded_list(entries[str_of(p)].columns),
      rows |-> loaded_list(entries[str_of(p)].rows)]]

\* "{str(k): v for k, v in ...all_pages_manual_data.items()}", as written
dumped_manual_data(md) ==
  [k \in {str_of(p) : p \in DOMAIN md} |-> dumped_grid(md[int_of(k)])]

\* "{int(k): v for k, v in config['manual_data'].items()}", as read
loaded_manual_data(entries) ==
  [p \in {int_of(k) : k \in DOMAIN entries} |-> loaded_grid(entries[str_of(p)])]

\* The file save_all_page_markers writes: 'manual_data' is {} unless there
\* is manual data.
saved_config(pm, md) ==
  [NoConfig EXCEPT !.written = TRUE, !.with_page_markers = TRUE,
                   !.page_markers = dumped_page_markers(pm),
                   !.manual_data = dumped_manual_data(md)]

\* The file save_table_config writes: the working markers and the page.
saved_table_config(cols, rows, page) ==
  [NoConfig EXCEPT !.written = TRUE, !.with_markers = TRUE,
                   !.column_markers = dumped_list(cols),
                   !.row_markers = dumped_list(rows),
                   !.page = str_of(page)]

\* config['manual_data'] is present and not empty
has_manual_data(config) == DOMAIN config.manual_data # {}

\* The error dialog load_all_page_markers ends with, "" for none: the else
\* of the test for manual data, or the except clause reached when the
\* status text for manual data names num_pages, which is assigned only
\* under "if 'page_markers' in config".
load_report(config) ==
  IF has_manual_data(config)
  THEN IF config.with_page_markers THEN "" ELSE "Failed to load page markers"
  ELSE "Invalid page markers file"

\* app.page_markers after load_all_page_markers has read config
load_page_markers(config, pm) ==
  IF config.with_page_markers THEN loaded_page_markers(config.page_markers)
  ELSE pm

\* all_pages_manual_data after load_all_page_markers has read config
load_manual_data(config, md) ==
  IF has_manual_data(config) THEN loaded_manual_data(config.manual_data) ELSE md

\* ConfigManager.save_all_page_markers, a file chosen in the dialog
save_all_page_markers ==
  /\ DOMAIN page_markers # {}
  /\ config_file' = saved_config(page_markers, all_pages_manual_data)
  /\ UNCHANGED <<sessionVars, gridVars, mergeVars, lineVars, orientVars,
                 all_pages_manual_data, csv_file, manualVars>>

\* ConfigManager.load_all_page_markers on the file config: same_file says
\* whether the file names the open document, load_anyway is the answer to
\* "Load anyway?".
load_config_file(config, same_file, load_anyway) ==
  /\ config.written
  /\ IF ~same_file /\ ~load_anyway
     THEN UNCHANGED vars
     ELSE LET pm == load_page_markers(config, page_markers)
              m == load_markers_for_current_page(current_page, pm,
                                                 column_markers, row_markers)
          IN /\ page_markers' = pm
             /\ IF config.with_page_markers /\ current_page \in DOMAIN pm
                THEN /\ column_markers' = m.c
                     /\ row_markers' = m.r
                     /\ markers_shared' = m.shared
                ELSE /\ UNCHANGED <<column_markers, row_markers>>
                     /\ markers_shared' = (markers_shared
                                             /\ ~config.with_page_markers)
             /\ all_pages_manual_data' =
                  load_manual_data(config, all_pages_manual_data)
             /\ IF has_manual_data(config)
                THEN /\ manual_data_shared' = {}
                     /\ table_data_rows' =
                          rows_unstored(table_data_rows,
                                        DOMAIN all_pages_manual_data,
                                        manual_data_shared)
                ELSE UNCHANGED <<manual_data_shared, table_data_rows>>
             /\ UNCHANGED <<pdf_document, total_pages, current_page,
                            zoom_factor, selection_mode, marker_history>>
             /\ UNCHANGED <<gridVars, mergeVars, lineVars, orientVars,
                            config_file, csv_file, manual_mode_active,
                            current_cell, manual_table_data, cell_coordinates,
                            cell_text_entry, canvas_button_1>>

\* ConfigManager.save_table_config, a file chosen in the dialog
save_table_config ==
  /\ column_markers # <<>>
  /\ row_markers # <<>>
  /\ config_file' = saved_table_config(column_markers, row_markers,
                                       IF pdf_document THEN current_page ELSE 0)
  /\ UNCHANGED <<sessionVars, gridVars, mergeVars, lineVars, orientVars,
                 all_pages_manual_data, csv_file, manualVars>>

\* The error dialog load_table_config ends with, "" for none.
load_table_report(config) ==
  IF config.with_markers THEN "" ELSE "Invalid configuration file"

\* ConfigManager.load_table_config on the file config: the markers of the
\* file become the working markers; with a document open and the file's
\* page in range, that page is then displayed, and update_page_display
\* puts the page's saved record, or empty lists, in their place.
load_table_config(config) ==
  /\ config.written
  /\ IF ~config.with_markers
     THEN UNCHANGED vars
     ELSE LET cols == loaded_list(config.column_markers)
              rows == loaded_list(config.row_markers)
              page == int_of(config.page)
              shown == update_page_display(pdf_document, page, page_markers,
                                           cols, rows, FALSE)
          IN /\ IF pdf_document /\ 0 <= page /\ page < total_pages
                THEN /\ current_page' = page
                     /\ column_markers' = shown.c
                     /\ row_markers' = shown.r
                     /\ markers_shared' = shown.shared
                ELSE /\ column_markers' = cols
                     /\ row_markers' = rows
                     /\ markers_shared' = FALSE
                     /\ UNCHANGED current_page
             /\ UNCHANGED <<pdf_document, total_pages, zoom_factor,
                            selection_mode, marker_history, page_markers>>
             /\ UNCHANGED <<gridVars, mergeVars, lineVars, orientVars,
                            configVars>>

\* ManualInputManager._store_current_page_values: the grid entered by hand
\* is kept for the current page. The grid is given; the session in which it
\* is typed is followed by manual_store_current_page_values.
store_current_page_values(grid) ==
  /\ all_pages_manual_data' =
       [p \in DOMAIN all_pages_manual_data \cup {current_page} |->
          IF p = current_page THEN grid ELSE all_pages_manual_data[p]]
  /\ UNCHANGED <<sessionVars, gridVars, mergeVars, lineVars, orientVars,
                 config_file, csv_file, manualVars>>

\* The saved records and manual grids of this part: the markers 10.0 and
\* 200.5 beside 5 and 90, cells with a quote, a backslash and a line break.
RecordA ==
  [columns |-> << <<10, 0>>, <<200, 5>> >>, rows |-> << <<5>>, <<90>> >>]
RecordB == [columns |-> << <<5>>, <<90>> >>, rows |-> << <<10, 0>> >>]

ConfigSnapshots == UNION {[D -> {RecordA, RecordB}] : D \in (SUBSET Pages) \ {{}}}

GridA == << << <<"a", "\"">>, <<"\\", "n">> >> >>
GridB == << << <<"\n">> >>, << <<>> >> >>

ManualGrids == {GridA, GridB}

\* Files written elsewhere: a snapshot with or without manual data, and the
\* same files without the key 'page_markers'.
ForeignManualData == {NoManualData, [p \in {0} |-> GridB]}

ConfigFiles ==
  {IF with THEN saved_config(pm, md)
   ELSE [saved_config(pm, md) EXCEPT !.with_page_markers = FALSE,
                                     !.page_markers = NoConfig.page_markers] :
     pm \in {[p \in {0} |-> RecordB], [p \in Pages |-> RecordA]},
     md \in ForeignManualData, with \in BOOLEAN}

\* A loaded document on any page, with any snapshot of saved records or
\* none, the saved markers of the current page shown.
InitConfig ==
  /\ pdf_document = TRUE
  /\ total_pages = NumPages
  /\ current_page \in Pages
  /\ zoom_factor = <<1000, 0>>
  /\ page_markers \in ConfigSnapshots \cup {NoPageMarkers}
  /\ column_markers = load_markers_for_current_page(current_page, page_markers,
                                                    <<>>, <<>>).c
  /\ row_markers = load_markers_for_current_page(current_page, page_markers,
                                                 <<>>, <<>>).r
  /\ markers_shared = (current_page \in DOMAIN page_markers)
  /\ selection_mode = "none"
  /\ marker_history = <<>>
  /\ pdf_pages = BlankPages(NumPages)
  /\ text_page = <<>>
  /\ extraction_mode = "unset"
  /\ table_data = <<>>
  /\ page_table = <<>>
  /\ all_tables = <<>>
  /\ merged_table = <<>>
  /\ NoDetection
  /\ FreshManagers

NextConfig ==
  \/ save_all_page_markers
  \/ \E same_file \in BOOLEAN, load_anyway \in BOOLEAN :
       load_config_file(config_file, same_file, load_anyway)
  \/ \E config \in ConfigFiles, same_file \in BOOLEAN, load_anyway \in BOOLEAN :
       load_config_file(config, same_file, load_anyway)
  \/ save_table_config
  \/ load_table_config(config_file)
  \/ \E grid \in ManualGrids : store_current_page_values(grid)

SpecConfig == InitConfig /\ [][NextConfig]_vars

\* ------------------------------------- claims on the configuration
\* The file save_all_page_markers writes in this state.
SavedNow == saved_config(page_markers, all_pages_manual_data)

\* The manual data a later load can find in the session.
LaterManualData == {all_pages_manual_data} \cup ForeignManualData

\* C23: loading the file that save_all_page_markers writes gives back the
\* saved records: the same integer page indices, each with the identical
\* column list and row list, values and order, integers and floats apart;
\* and saved manual data come back as the identical grids for the identical
\* pages, whatever manual data the session holds at the load.
C23_RoundTrip ==
  DOMAIN page_markers # {} =>
    /\ load_page_markers(SavedNow, NoPageMarkers) = page_markers
    /\ DOMAIN all_pages_manual_data # {} =>
         \A later \in LaterManualData :
           load_manual_data(SavedNow, later) = all_pages_manual_data

\* A file has been written with records for both pages, float markers and
\* manual data, and the session holds what the file reads back as.
C23_Witness ==
  /\ config_file.written
  /\ DOMAIN config_file.page_markers = {str_of(p) : p \in Pages}
  /\ has_manual_data(config_file)
  /\ page_markers = loaded_page_markers(config_file.page_markers)
  /\ all_pages_manual_data = loaded_manual_data(config_file.manual_data)
  /\ \E p \in DOMAIN page_markers : page_markers[p] = RecordA
  /\ \E p \in DOMAIN all_pages_manual_data : all_pages_manual_data[p] = GridA

\* The files a load can be given in this state.
LoadableFiles == ConfigFiles \cup {f \in {config_file} : f.written}

\* C24: a load that reports "Invalid page markers file" has left the page
\* markers and the manual data as they were; a file with page markers and
\* no manual data is loaded without an error report; a file without page
\* markers changes neither the page markers nor the manual data.
C24_ValidateThenCommit ==
  \A config \in LoadableFiles :
    LET unchanged ==
          /\ load_page_markers(config, page_markers) = page_markers
          /\ load_manual_data(config, all_pages_manual_data)
               = all_pages_manual_data
    IN /\ load_report(config) = "Invalid page markers file" => unchanged
       /\ (config.with_page_markers /\ ~has_manual_data(config))
            => load_report(config) = ""
       /\ ~config.with_page_markers => unchanged

\* ------------------------------------- delimited-text export
\* cell_str.replace('"', '""')
RECURSIVE doubled_quotes(_)
doubled_quotes(str) ==
  IF str = <<>> THEN <<>>
  ELSE (IF Head(str) = "\"" THEN <<"\"", "\"">> ELSE <<Head(str)>>)
         \o doubled_quotes(Tail(str))

\* One field of TableExtractor.save_extracted_text: f'"{cell}"' if cell
\* else "".
extracted_text_field(cell) ==
  IF cell # <<>> THEN <<"\"">> \o cell \o <<"\"">> ELSE <<>>

\* One field of export_to_csv.
export_field(cell) ==
  IF "," \in Range(cell) \/ "\"" \in Range(cell)
  THEN <<"\"">> \o doubled_quotes(cell) \o <<"\"">>
  ELSE IF cell = <<>> THEN <<"\"", "\"">>
  ELSE cell

\* The text TableExtractor.save_extracted_text writes for a grid.
extracted_text_file(table) ==
  joined([r \in 1..Len(table) |->
            joined_by([c \in 1..Len(table[r]) |-> extracted_text_field(table[r][c])],
                      <<",">>) \o <<"\n">>])

\* The text export_to_csv writes for a grid.
export_file(table) ==
  joined([r \in 1..Len(table) |->
            joined_by([c \in 1..Len(table[r]) |-> export_field(table[r][c])],
                      <<",">>) \o <<"\n">>])

\* TableExtractor.save_extracted_text('csv'), a file chosen in the dialog
save_extracted_text ==
  /\ table_data # <<>>
  /\ csv_file' = extracted_text_file(table_data)
  /\ UNCHANGED <<sessionVars, gridVars, mergeVars, lineVars, orientVars,
                 all_pages_manual_data, config_file, manualVars>>

\* export_to_csv(table_data), a file chosen in the dialog
export_to_csv ==
  /\ table_data # <<>>
  /\ csv_file' = export_file(table_data)
  /\ UNCHANGED <<sessionVars, gridVars, mergeVars, lineVars, orientVars,
                 all_pages_manual_data, config_file, manualVars>>

\* The cells of the grids exported: plain, empty, with a comma, with a
\* quote, with a quote on either side of a comma, with a comma and a quote.
ExportCells ==
  {<<"a">>, <<>>, <<"a", ",", "b">>, <<"a", "\"", "b">>,
   <<"\"", ",", "\"">>, <<",", "\"">>}

ExportTables ==
  {<< <<c1, c2>> >> : c1 \in ExportCells, c2 \in ExportCells}
    \cup {<< <<c1>>, <<c2>> >> : c1 \in ExportCells, c2 \in ExportCells}

\* A grid has been extracted; nothing has been exported yet.
InitExport ==
  /\ pdf_document = TRUE
  /\ total_pages = NumPages
  /\ current_page = 0
  /\ zoom_factor = <<1000, 0>>
  /\ column_markers = <<>>
  /\ row_markers = <<>>
  /\ selection_mode = "none"
  /\ marker_history = <<>>
  /\ page_markers = NoPageMarkers
  /\ markers_shared = FALSE
  /\ pdf_pages = BlankPages(NumPages)
  /\ text_page = <<>>
  /\ extraction_mode = "newline"
  /\ table_data \in ExportTables
  /\ page_table = <<>>
  /\ all_tables = <<>>
  /\ merged_table = <<>>
  /\ NoDetection
  /\ FreshManagers

NextExport ==
  \/ save_extracted_text
  \/ export_to_csv

SpecExport == InitExport /\ [][NextExport]_vars

\* ------------------------------------- claims on the export
\* A reader of delimited text: fields are separated by commas and rows by
\* line breaks; a field that starts with a quote runs to its closing quote,
\* a doubled quote inside standing for one quote; an empty line is a row
\* without fields.
RECURSIVE read_csv(_, _, _, _, _, _)
read_csv(text, i, mode, field, row, rows) ==
  IF i > Len(text)
  THEN IF mode = "start" /\ row = <<>> THEN rows
       ELSE Append(rows, Append(row, field))
  ELSE LET ch == text[i]
       IN CASE mode = "quoted" /\ ch = "\"" ->
                 read_csv(text, i + 1, "closed", field, row, rows)
            [] mode = "quoted" /\ ch # "\"" ->
                 read_csv(text, i + 1, "quoted", Append(field, ch), row, rows)
            [] mode = "closed" /\ ch = "\"" ->
                 read_csv(text, i + 1, "quoted", Append(field, ch), row, rows)
            [] mode = "start" /\ ch = "\"" ->
                 read_csv(text, i + 1, "quoted", field, row, rows)
            [] mode # "quoted" /\ ch = "," ->
                 read_csv(text, i + 1, "start", <<>>, Append(row, field), rows)
            [] mode # "quoted" /\ ch = "\n" ->
                 read_csv(text, i + 1, "start", <<>>, <<>>,
                          Append(rows, IF mode = "start" /\ row = <<>> THEN <<>>
                                       ELSE Append(row, field)))
            [] OTHER ->
                 read_csv(text, i + 1, "plain", Append(field, ch), row, rows)

\* The cells of a written text, read back.
ReadBack(text) == read_csv(text, 1, "start", <<>>, <<>>, <<>>)

\* The cell has a comma or a double quote.
NeedsQuoting(cell) == "," \in Range(cell) \/ "\"" \in Range(cell)

\* The field is the cell between double quotes, its quotes doubled.
QuotedAndDoubled(cell, field) ==
  /\ Len(field) >= 2
  /\ field[1] = "\"" /\ field[Len(field)] = "\""
  /\ ReadBack(field) = << <<cell>> >>

\* C25: both exports write every cell that has a comma or a double quote
\* between double quotes with its quotes doubled, and every such cell of
\* an exported grid reads back from the written text as the cell it was.
C25_ExportReadsBack ==
  /\ \A r \in 1..Len(table_data) : \A c \in 1..Len(table_data[r]) :
       NeedsQuoting(table_data[r][c]) =>
         /\ QuotedAndDoubled(table_data[r][c],
                             extracted_text_field(table_data[r][c]))
         /\ QuotedAndDoubled(table_data[r][c], export_field(table_data[r][c]))
  /\ csv_file # <<>> =>
       \A r \in 1..Len(table_data) : \A c \in 1..Len(table_data[r]) :
         NeedsQuoting(table_data[r][c]) =>
           /\ r <= Len(ReadBack(csv_file))
           /\ c <= Len(ReadBack(csv_file)[r])
           /\ ReadBack(csv_file)[r][c] = table_data[r][c]

\* ------------------------------------- claims on the history
\* The working set a history entry belongs to.
WorkingSetOf(entry) ==
  IF entry.type = "column" THEN Range(column_markers) ELSE Range(row_markers)

\* C26: every entry of the history names a value that is in the working
\* marker set of its type.
C26_HistoryInWorkingSet ==
  \A i \in 1..Len(marker_history) :
    marker_history[i].value \in WorkingSetOf(marker_history[i])

\* A document is open on its first page; the second page has a saved
\* record or none. Markers are added on the first page only, so that every
\* entry of the history was recorded while the first page was current.
InitHistory ==
  /\ pdf_document = TRUE
  /\ total_pages = NumPages
  /\ current_page = 0
  /\ zoom_factor = <<1000, 0>>
  /\ column_markers = <<>>
  /\ row_markers = <<>>
  /\ selection_mode = "none"
  /\ marker_history = <<>>
  /\ page_markers \in {NoPageMarkers} \cup {[p \in {1} |-> rec] : rec \in SavedRecords}
  /\ markers_shared = FALSE
  /\ pdf_pages = BlankPages(NumPages)
  /\ text_page = <<>>
  /\ extraction_mode = "unset"
  /\ table_data = <<>>
  /\ page_table = <<>>
  /\ all_tables = <<>>
  /\ merged_table = <<>>
  /\ NoDetection
  /\ FreshManagers

\* _on_canvas_click while the first page is displayed
click_on_first_page(x, y) ==
  /\ current_page = 0
  /\ on_canvas_click(x, y)

NextHistory ==
  \/ \E mode \in {"column", "row"} : set_selection_mode(mode)
  \/ \E x \in SessionXs, y \in SessionYs : click_on_first_page(x, y)
  \/ undo_last_marker
  \/ \E save_answer \in BOOLEAN : next_page(save_answer)
  \/ \E save_answer \in BOOLEAN : prev_page(save_answer)

SpecHistory == InitHistory /\ [][NextHistory]_vars

\* A step of undo_last_marker: the history loses its newest entry.
UndoStep ==
  /\ marker_history # <<>>
  /\ marker_history' = SubSeq(marker_history, 1, Len(marker_history) - 1)

\* C27: an undo on another page than the one its history entry was recorded
\* on (here: on any page but the first) removes no marker from the working
\* set of the page displayed and changes no saved record.
C27_UndoKeepsOtherPages ==
  [][(UndoStep /\ current_page # 0)
       => /\ column_markers' = column_markers
          /\ row_markers' = row_markers
          /\ page_markers' = page_markers]_vars

\* -------------------------------------- the pass and the working markers
\* The working lists a session can hold while some page is marked: the lists
\* of the displayed page's record when it has one (update_page_display hands
\* them out), otherwise whatever was clicked since the page was shown.
WorkingMarkerLists == {<<>>, <<1>>, <<0, 1>>, <<0, 1, 2>>}

\* The records of the marked pages: as many markers on both axes.
RestoreRecords == {[columns |-> m, rows |-> m] : m \in PassMarkerLists}

\* A document of NumPages pages, some of them marked, shown at any page; the
\* working markers of a page without a record are not saved anywhere.
InitRestore ==
  /\ pdf_document = TRUE
  /\ total_pages = NumPages
  /\ current_page \in Pages
  /\ zoom_factor = <<1000, 0>>
  /\ page_markers \in UNION {[D -> RestoreRecords] : D \in (SUBSET Pages) \ {{}}}
  /\ IF current_page \in DOMAIN page_markers
     THEN /\ column_markers = page_markers[current_page].columns
          /\ row_markers = page_markers[current_page].rows
     ELSE /\ column_markers \in WorkingMarkerLists
          /\ row_markers \in {<<>>, column_markers}
  /\ selection_mode = "none"
  /\ marker_history = <<>>
  /\ markers_shared = (current_page \in DOMAIN page_markers)
  /\ pdf_pages \in {f \in [Pages -> UNION {PageContents(p) : p \in Pages}] :
                      \A p \in Pages : f[p] \in PageContents(p)}
  /\ text_page = pdf_pages[current_page].spans
  /\ extraction_mode = "unset"
  /\ table_data = <<>>
  /\ page_table = <<>>
  /\ all_tables = <<>>
  /\ merged_table = <<>>
  /\ NoDetection
  /\ FreshManagers

NextRestore ==
  \E keys \in KeyOrders(DOMAIN page_markers), mode \in ExtractionModes,
     options \in MultipageOptions :
       extract_from_marked_pages(keys, mode, options)

SpecRestore == InitRestore /\ [][NextRestore]_vars

\* A step of extract_from_marked_pages, whatever the dialogs answered.
PassStep ==
  \E keys \in KeyOrders(DOMAIN page_markers), mode \in ExtractionModes,
     options \in MultipageOptions :
       extract_from_marked_pages(keys, mode, options)

\* C28: a multi-page extraction pass restores the session: after it returns,
\* current_page and the working column and row markers are what they were
\* before the pass, also when the displayed page has working markers and no
\* saved record, and the saved page records are unchanged.
C28_PassRestoresSession ==
  [][PassStep => /\ current_page' = current_page
                 /\ column_markers' = column_markers
                 /\ row_markers' = row_markers
                 /\ page_markers' = page_markers]_vars

\* ------------------------------------------ the correction transforms
\* TextOrientationCorrector._correct_vertical_text on app.table_data
correct_vertical_text ==
  /\ table_data # <<>>
  /\ assign_cells(apply_correction(table_data, "vertical"))
  /\ UNCHANGED <<sessionVars, mergeVars, lineVars, orientVars,
                 pdf_pages, text_page, extraction_mode, page_table>>

\* TextOrientationCorrector._correct_rtl_text on app.table_data
correct_rtl_text ==
  /\ table_data # <<>>
  /\ assign_cells(apply_correction(table_data, "rtl"))
  /\ UNCHANGED <<sessionVars, mergeVars, lineVars, orientVars,
                 pdf_pages, text_page, extraction_mode, page_table>>

\* TextOrientationCorrector._correct_flipped_text on app.table_data
correct_flipped_text ==
  /\ table_data # <<>>
  /\ assign_cells(apply_correction(table_data, "flipped"))
  /\ UNCHANGED <<sessionVars, mergeVars, lineVars, orientVars,
                 pdf_pages, text_page, extraction_mode, page_table>>

\* The cells the transforms are applied to: every text of up to MaxCellLen
\* characters over a letter, a second letter, the space and the line break.
MaxCellLen == 4

CellAlphabet == {"a", "b", " ", "\n"}

TransformCells == SeqsUpTo(CellAlphabet, MaxCellLen)

\* A word of three letters extracted one letter per line from bottom to top.
ThreeLines == <<"c", "\n", "b", "\n", "a">>

\* The grids the transforms are applied to: a cell beside or above the
\* three-line word.
TransformTables ==
  {<< <<cell, ThreeLines>> >> : cell \in TransformCells}
    \cup {<< <<cell>>, <<ThreeLines>> >> : cell \in TransformCells}

\* A grid has been extracted from the first page.
InitTransform ==
  /\ pdf_document = TRUE
  /\ total_pages = NumPages
  /\ current_page = 0
  /\ zoom_factor = <<1000, 0>>
  /\ column_markers = <<>>
  /\ row_markers = <<>>
  /\ selection_mode = "none"
  /\ marker_history = <<>>
  /\ page_markers = NoPageMarkers
  /\ markers_shared = FALSE
  /\ pdf_pages = BlankPages(NumPages)
  /\ text_page = <<>>
  /\ extraction_mode = "newline"
  /\ table_data \in TransformTables
  /\ page_table = <<>>
  /\ all_tables = <<>>
  /\ merged_table = <<>>
  /\ NoDetection
  /\ FreshManagers

NextTransform ==
  \/ correct_vertical_text
  \/ correct_rtl_text
  \/ correct_flipped_text
  \/ force_text_orientation_correction

SpecTransform == InitTransform /\ [][NextTransform]_vars

\* The number of characters of a cell that are not whitespace.
NonWhitespace(cell) ==
  Cardinality({i \in 1..Len(cell) : cell[i] \notin Whitespace})

\* The grid keeps its dimensions over a step.
SameDimensions ==
  /\ Len(table_data') = Len(table_data)
  /\ \A r \in 1..Len(table_data) : Len(table_data'[r]) = Len(table_data[r])

\* Every cell for which Short holds is the same after the step.
KeepsCells(Short(_)) ==
  \A r \in 1..Len(table_data) : \A c \in 1..Len(table_data[r]) :
    Short(table_data[r][c]) => table_data'[r][c] = table_data[r][c]

FewerThanThreeSolid(cell) == NonWhitespace(cell) < 3

ShorterThanTwo(cell) == Len(cell) < 2

StrippedShorterThanThree(cell) == Len(strip(cell)) < 3

\* C31 (as stated): every correction transform keeps the grid's dimensions
\* and leaves unchanged every cell that has fewer than three non-whitespace
\* characters.
C31_TransformsKeepShortCells ==
  [][SameDimensions /\ KeepsCells(FewerThanThreeSolid)]_vars

\* C31 (amended): every correction transform keeps the grid's dimensions;
\* the vertical transform leaves unchanged every cell with fewer than three
\* non-whitespace characters, the forced correction every cell whose text
\* without the surrounding whitespace is shorter than three characters, the
\* RTL and the flipped transform every cell shorter than two characters.
C31_TransformsKeepShortestCells ==
  [][/\ SameDimensions
     /\ correct_vertical_text => KeepsCells(FewerThanThreeSolid)
     /\ force_text_orientation_correction => KeepsCells(StrippedShorterThanThree)
     /\ (correct_rtl_text \/ correct_flipped_text) => KeepsCells(ShorterThanTwo)
    ]_vars

\* The vertical transform has turned the three-line word into "abc" and left
\* the cell "a", empty line, "b" beside it as it was.
C31_Witness ==
  table_data = << << <<"a", "\n", "\n", "b">>, <<"a", "b", "c">> >> >>

\* ------------------------------------------ the geometry pre-check
\* The spans of a page: upright, much taller than wide, written from right
\* to left, written from top to bottom, and both tall and top to bottom.
MaxGeometrySpans == 4

TtbSpan ==
  [text |-> <<"a">>, x0 |-> 0, y0 |-> 0, x1 |-> 3, y1 |-> 3, dir |-> <<0, -1, 0>>]

TallTtbSpan ==
  [text |-> <<"a">>, x0 |-> 0, y0 |-> 0, x1 |-> 3, y1 |-> 30, dir |-> <<0, -1, 0>>]

GeometrySpans == {UprightSpan, TallSpan, RtlSpan, TtbSpan, TallTtbSpan}

GeometryPages ==
  {[readable |-> FALSE, spans |-> <<>>]}
    \cup {[readable |-> TRUE, spans |-> q] :
            q \in SeqsUpTo(GeometrySpans, MaxGeometrySpans)}

\* A grid whose text alone gives one vertical indicator: the analysis
\* corrects it exactly when the pre-check reports "vertical".
GeometryTable == << <<<<"e", "\n", "l", "\n", "b">>, Filler("x")>> >>

\* The grid has been extracted from the first page; the corrector is fresh.
InitGeometry ==
  /\ pdf_document = TRUE
  /\ total_pages = NumPages
  /\ current_page = 0
  /\ zoom_factor = <<1000, 0>>
  /\ column_markers = <<>>
  /\ row_markers = <<>>
  /\ selection_mode = "none"
  /\ marker_history = <<>>
  /\ page_markers = NoPageMarkers
  /\ markers_shared = FALSE
  /\ \E page \in GeometryPages :
       /\ text_page = page.spans
       /\ pdf_pages = [p \in Pages |-> IF p = 0 THEN page ELSE BlankPage]
  /\ extraction_mode = "newline"
  /\ table_data = GeometryTable
  /\ page_table = <<>>
  /\ all_tables = <<>>
  /\ merged_table = <<>>
  /\ NoDetection
  /\ FreshManagers

NextGeometry ==
  \/ corrector_correct_text_orientation
  \/ restore_original_text

SpecGeometry == InitGeometry /\ [][NextGeometry]_vars

\* The spans of this state's page that are flagged vertical (by the
\* direction flag or by the bbox), and those with a negative x-direction.
FlaggedVertical ==
  LET spans == pdf_pages[current_page].spans
  IN {i \in 1..Len(spans) : span_dir(spans[i])[2] < 0 \/ tall_span(spans[i])}

FlaggedRtl ==
  LET spans == pdf_pages[current_page].spans
  IN {i \in 1..Len(spans) : span_dir(spans[i])[1] < 0}

\* More than 30% of this state's page's spans are in S.
MoreThan30Percent(S) ==
  10 * Cardinality(S) > 3 * Len(pdf_pages[current_page].spans)

\* C32: the geometry pre-check of a readable page reports "vertical" exactly
\* when more than 30% of the page's spans are flagged vertical, otherwise
\* "rtl" exactly when more than 30% of them have a negative x-direction,
\* otherwise no issue.
C32_PreCheckByShare ==
  pdf_pages[current_page].readable
    => PreCheck = IF MoreThan30Percent(FlaggedVertical) THEN "vertical"
                  ELSE IF MoreThan30Percent(FlaggedRtl) THEN "rtl"
                  ELSE "none"

\* ------------------------------------------ thick lines in the projection
\* A band: strokes of one length on up to MaxBandWidth adjacent columns (or
\* rows), with at least one pixel of the image on either side.
MaxBandWidth == 5

Band(dir, first, width, len) ==
  {[dir |-> dir, at |-> k, len |-> len] : k \in first..(first + width - 1)}

Bands(dir, n, m) ==
  {Band(dir, first, width, len) :
     first \in 1..(n - 2), width \in 1..MaxBandWidth, len \in StrokeLengths(m)}

\* The images of a given size with one band of full ink, across or down.
BandDrawings(width, height) ==
  {Drawing(width, height, <<159, 159, 159>>, drawn) :
     drawn \in {b \in Bands("v", width, height) :
                  \A st \in b : st.at <= width - 2}
                 \cup {b \in Bands("h", height, width) :
                         \A st \in b : st.at <= height - 2}}

\* The selection whose rendering carries the band: 3 units square.
BandSelection == [made |-> TRUE, x1 |-> 0, y1 |-> 0, x2 |-> 3, y2 |-> 3]

\* A loaded page without markers, the area selected on it.
InitPeaks ==
  /\ pdf_document = TRUE
  /\ total_pages = NumPages
  /\ current_page = 0
  /\ zoom_factor = <<1000, 0>>
  /\ column_markers = <<>>
  /\ row_markers = <<>>
  /\ selection_mode = "area"
  /\ marker_history = <<>>
  /\ page_markers = NoPageMarkers
  /\ markers_shared = FALSE
  /\ pdf_pages = BlankPages(NumPages)
  /\ text_page = <<>>
  /\ extraction_mode = "unset"
  /\ table_data = <<>>
  /\ page_table = <<>>
  /\ all_tables = <<>>
  /\ merged_table = <<>>
  /\ selection = BandSelection
  /\ processed_image \in BandDrawings(rendered_side(selection.x1, selection.x2),
                                      rendered_side(selection.y1, selection.y2))
  /\ detected_vertical_lines = <<>>
  /\ detected_horizontal_lines = <<>>
  /\ detection_error = FALSE
  /\ FreshManagers

NextPeaks == \E clear \in BOOLEAN : process_selection(clear)

SpecPeaks == InitPeaks /\ [][NextPeaks]_vars

\* The flat tops of a profile of n positions: the maximal runs a..b of equal
\* values above 0.3 of the largest value, strictly higher than the values at
\* a - 1 and at b + 1.
FlatTops(projection, n, darkest) ==
  {run \in (1..(n - 2)) \X (1..(n - 2)) :
     /\ run[1] <= run[2]
     /\ projection[run[1] - 1] < projection[run[1]]
     /\ projection[run[2] + 1] < projection[run[2]]
     /\ \A x \in run[1]..run[2] : projection[x] = projection[run[1]]
     /\ reasonably_dark(projection, darkest, run[1])}

\* Every one of the runs tops holds one of the positions peaks.
HoldPeaks(tops, peaks) ==
  \A run \in tops : \E x \in run[1]..run[2] : x \in peaks

\* Every flat top of the profile holds one of the profile's candidates.
FlatTopsHoldPeaks(projection, n) ==
  HoldPeaks(FlatTops(projection, n, max_darkness(projection)),
            projection_peaks(projection, n))

\* C33: when the projection step ends, every flat top of the profile,
\* whatever its width, holds at least one candidate position, for the
\* columns and for the rows of the processed image.
C33_FlatTopsGiveCandidates ==
  ~detector_raises(processed_image)
    => /\ FlatTopsHoldPeaks(vertical_projection(processed_image),
                            processed_image.width)
       /\ FlatTopsHoldPeaks(vertical_projection(flipped(processed_image)),
                            processed_image.height)

\* ------------------------------------------ the reported positions
\* The positions reported for the columns of an image: strictly ascending,
\* inside the image, candidates of the image, and any two of them further
\* apart than the clustering threshold.
ReportedApart(img, reported) ==
  /\ IsStrictlyAscending(reported)
  /\ \A i \in 1..Len(reported) :
       /\ 0 <= reported[i] /\ reported[i] < img.width
       /\ reported[i] \in Range(vertical_candidates(img))
  /\ \A i \in 1..(Len(reported) - 1) :
       reported[i + 1] - reported[i] > Max({3, img.width \div 100})

\* C34: the positions line detection reports for an axis are strictly
\* ascending, lie inside the image, are candidate positions of that axis,
\* and any two of them differ by more than the clustering threshold
\* max(3, 1% of the dimension).
C34_ReportedPositionsApart ==
  column_markers # <<>> =>
    /\ ReportedApart(processed_image, detected_vertical_lines)
    /\ ReportedApart(flipped(processed_image), detected_horizontal_lines)

\* Two vertical lines are reported, fewer than there were candidates.
C34_Witness ==
  /\ column_markers # <<>>
  /\ Len(detected_vertical_lines) = 2
  /\ Len(vertical_candidates(processed_image)) > 2

\* ------------------------------------------ the mapping when zoomed in
\* zoom_factor after thirteen zoom_in from 1.0, and the processing zoom
\* max(8.0, zoom_factor) it gives, 1.2^13 = 10.69932..., in hundred-
\* thousandths: for the coordinates below 700 the integer parts of the
\* products are those of the float products.
ZoomedIn == <<1000, 13>>

processing_zoom_zoomed_in == 1069932

\* int(x * processing_zoom)
zoomed(x) == (x * processing_zoom_zoomed_in) \div 100000

\* int(crop * processing_zoom) for the crop min(3, 0.05 * side)
zoomed_crop(side) ==
  IF side >= 60 THEN (3 * processing_zoom_zoomed_in) \div 100000
  ELSE (side * processing_zoom_zoomed_in) \div 2000000

\* The side of the cropped rendering, in pixels, for the selection lo..hi.
rendered_side_zoomed_in(lo, hi) ==
  zoomed(hi) - zoomed(lo) - 2 * zoomed_crop(hi - lo)

\* The selections: from the corner (3, 1), up to MaxMappedWidth wide and
\* MaxMappedHeight high, and one of 2 by TallSide.
MaxMappedWidth == 4
MaxMappedHeight == 5
TallSide == 308

MappedSelections ==
  {[made |-> TRUE, x1 |-> 3, y1 |-> 1, x2 |-> 3 + size[1], y2 |-> 1 + size[2]] :
     size \in ((1..MaxMappedWidth) \X (1..MaxMappedHeight)) \cup {<<2, TallSide>>}}

\* The strokes of the renderings: at the second and at the last but one
\* pixel of a side, two fifths of the other side long.
MappedStrokes(width, height) ==
  {[dir |-> "v", at |-> x, len |-> (2 * height) \div 5 + 1] :
     x \in {k \in {1, width - 2} : 0 <= k /\ k < width}}
  \cup {[dir |-> "h", at |-> y, len |-> (2 * width) \div 5 + 1] :
          y \in {k \in {1, height - 2} : 0 <= k /\ k < height}}

MappedRenderings(sel) ==
  LET width == rendered_side_zoomed_in(sel.x1, sel.x2)
      height == rendered_side_zoomed_in(sel.y1, sel.y2)
  IN {Drawing(width, height, <<159, 159, 159>>, drawn) :
        drawn \in StrokeSets(MappedStrokes(width, height), MaxStrokes)}

\* A loaded page without markers, zoomed in thirteen times, an area selected.
InitMapping ==
  /\ pdf_document = TRUE
  /\ total_pages = NumPages
  /\ current_page = 0
  /\ zoom_factor = ZoomedIn
  /\ column_markers = <<>>
  /\ row_markers = <<>>
  /\ selection_mode = "area"
  /\ marker_history = <<>>
  /\ page_markers = NoPageMarkers
  /\ markers_shared = FALSE
  /\ pdf_pages = BlankPages(NumPages)
  /\ text_page = <<>>
  /\ extraction_mode = "unset"
  /\ table_data = <<>>
  /\ page_table = <<>>
  /\ all_tables = <<>>
  /\ merged_table = <<>>
  /\ selection \in MappedSelections
  /\ processed_image \in MappedRenderings(selection)
  /\ detected_vertical_lines = <<>>
  /\ detected_horizontal_lines = <<>>
  /\ detection_error = FALSE
  /\ FreshManagers

NextMapping == \E clear \in BOOLEAN : process_selection(clear)

SpecMapping == InitMapping /\ [][NextMapping]_vars

cell_boxes(cols, rows) ==
  [r \in 1..(Len(rows) - 1) |->
     [c \in 1..(Len(cols) - 1) |->
        <<cols[c], rows[r], cols[c + 1], rows[r + 1]>>]]

\* [['' for _ in range(cols)] for _ in range(rows)]
empty_table(rows, cols) == [r \in 1..rows |-> blank_cells(cols)]

\* _highlight_current_cell: the entry box shows the content of the cell.
highlighted(grid, cell) == [made |-> TRUE, text |-> grid[cell[1] + 1][cell[2] + 1]]

\* The write of manual_table_data by _save_current_cell_content, where the
\* list is shared, and the move to the cell target.
save_and_go_to(target) ==
  LET grid == saved_cell_content(manual_table_data, manual_mode_active,
                                 cell_text_entry, current_cell)
  IN /\ manual_table_data' = grid
     /\ all_pages_manual_data' =
          shared_grids(all_pages_manual_data, manual_data_shared, grid)
     /\ table_data' = shared_rows(table_data, table_data_rows,
                                  manual_data_shared, grid)
     /\ current_cell' = target
     /\ cell_text_entry' = highlighted(grid, target)
     /\ UNCHANGED <<manual_mode_active, cell_coordinates, canvas_button_1,
                    manual_data_shared, table_data_rows>>
     /\ UNCHANGED <<sessionVars, pdf_pages, text_page, extraction_mode,
                    page_table, mergeVars, lineVars, orientVars, config_file,
                    csv_file>>

\* ManualInputManager.toggle_manual_mode
toggle_manual_mode ==
  /\ pdf_document
  /\ column_markers # <<>>
  /\ row_markers # <<>>
  /\ IF ~manual_mode_active
     THEN LET sorted_col_markers == Sorted(column_markers)
              sorted_row_markers == Sorted(row_markers)
              rows == Len(sorted_row_markers) - 1
              cols == Len(sorted_col_markers) - 1
              kept == /\ current_page \in DOMAIN all_pages_manual_data
                      /\ Len(all_pages_manual_data[current_page]) = rows
                      /\ Len(all_pages_manual_data[current_page][1]) = cols
              grid == IF kept THEN all_pages_manual_data[current_page]
                      ELSE empty_table(rows, cols)
          IN IF Len(sorted_col_markers) < 2 \/ Len(sorted_row_markers) < 2
             THEN \* _initialize_manual_input warns, resets the flag and
                  \* returns; toggle_manual_mode goes on to bind the canvas
                  /\ canvas_button_1' = "manual_input"
                  /\ UNCHANGED <<table_data, all_pages_manual_data>>
                  /\ UNCHANGED <<manual_mode_active, current_cell,
                                 manual_table_data, cell_coordinates,
                                 cell_text_entry, manual_data_shared,
                                 table_data_rows>>
             ELSE /\ manual_mode_active' = TRUE
                  /\ manual_table_data' = grid
                  /\ manual_data_shared' = IF kept THEN {current_page} ELSE {}
                  /\ table_data_rows' =
                       [i \in 1..Len(table_data_rows) |->
                          IF Len(table_data_rows[i]) = 1 THEN <<>>
                          ELSE table_data_rows[i]]
                  /\ cell_coordinates' = cell_boxes(sorted_col_markers,
                                                    sorted_row_markers)
                  /\ current_cell' = <<0, 0>>
                  /\ cell_text_entry' = highlighted(grid, <<0, 0>>)
                  /\ canvas_button_1' = "manual_input"
                  /\ UNCHANGED <<table_data, all_pages_manual_data>>
     ELSE \* the flag is reset before _save_current_cell_content is called
          LET s == saved_and_stored(FALSE)
          IN /\ manual_mode_active' = FALSE
             /\ manual_table_data' = s.manual
             /\ all_pages_manual_data' = s.stored
             /\ table_data' = s.table
             /\ table_data_rows' = s.rows
             /\ manual_data_shared' = s.shared
             /\ cell_text_entry' = NoEntry
             /\ canvas_button_1' = "main_area"
             /\ UNCHANGED <<current_cell, cell_coordinates>>
  /\ UNCHANGED <<sessionVars, pdf_pages, text_page, extraction_mode,
                 page_table, mergeVars, lineVars, orientVars, config_file,
                 csv_file>>

\* The cells whose box holds (x, y), borders included.
cells_at(boxes, x, y) ==
  {cell \in (0..(Len(boxes) - 1)) \X (0..(Len(boxes[1]) - 1)) :
     LET box == boxes[cell[1] + 1][cell[2] + 1]
     IN box[1] <= x /\ x <= box[3] /\ box[2] <= y /\ y <= box[4]}

\* The first of them in the order of the two loops, rows outermost.
first_cell(cells) ==
  CHOOSE cell \in cells :
    \A other \in cells :
      cell[1] < other[1] \/ (cell[1] = other[1] /\ cell[2] <= other[2])

\* ManualInputManager._on_canvas_click at document position (x, y)
manual_on_canvas_click(x, y) ==
  IF ~manual_mode_active \/ cell_coordinates = <<>>
     \/ cells_at(cell_coordinates, x, y) = {}
  THEN UNCHANGED vars
  ELSE save_and_go_to(first_cell(cells_at(cell_coordinates, x, y)))

\* <Button-1> on the canvas at document position (x, y): the handler that
\* was bound last is called.
canvas_button_1_pressed(x, y) ==
  IF canvas_button_1 = "manual_input"
  THEN manual_on_canvas_click(x, y)
  ELSE on_canvas_click(x, y)

\* The text of the entry box is edited.
entry_edited(text) ==
  /\ cell_text_entry.made
  /\ cell_text_entry' = [made |-> TRUE, text |-> text]
  /\ UNCHANGED <<sessionVars, gridVars, mergeVars, lineVars, orientVars,
                 all_pages_manual_data, config_file, csv_file,
                 manual_mode_active, current_cell, manual_table_data,
                 cell_coordinates, canvas_button_1, manual_data_shared,
                 table_data_rows>>

\* _go_to_next_cell staying in its row.
next_cell_in_row(cell, rows, cols) ==
  <<cell[1], IF cell[2] + 1 >= cols THEN 0 ELSE cell[2] + 1>>

\* The cell _go_to_next_cell moves to.
next_cell(cell, rows, cols) ==
  LET col == IF cell[2] + 1 >= cols THEN 0 ELSE cell[2] + 1
      row == IF cell[2] + 1 >= cols THEN cell[1] + 1 ELSE cell[1]
  IN <<IF row >= rows THEN 0 ELSE row, col>>

\* The cell _go_to_previous_cell moves to.
previous_cell(cell, rows, cols) ==
  LET col == IF cell[2] - 1 < 0 THEN cols - 1 ELSE cell[2] - 1
      row == IF cell[2] - 1 < 0 THEN cell[1] - 1 ELSE cell[1]
  IN <<IF row < 0 THEN rows - 1 ELSE row, col>>

\* The cell _go_to_cell(row, col) moves to.
bounded_cell(row, col, rows, cols) ==
  <<Max({0, Min({row, rows - 1})}), Max({0, Min({col, cols - 1})})>>

\* ManualInputManager._go_to_next_cell ("Next Cell")
go_to_next_cell ==
  /\ cell_text_entry.made
  /\ manual_mode_active
  /\ save_and_go_to(next_cell(current_cell, Len(manual_table_data),
                              Len(manual_table_data[1])))

\* ManualInputManager._go_to_previous_cell ("Previous Cell")
go_to_previous_cell ==
  /\ cell_text_entry.made
  /\ manual_mode_active
  /\ save_and_go_to(previous_cell(current_cell, Len(manual_table_data),
                                  Len(manual_table_data[1])))

\* ManualInputManager._save_and_advance (Return in the entry box)
save_and_advance ==
  /\ cell_text_entry.made
  /\ manual_mode_active
  /\ save_and_go_to(next_cell(current_cell, Len(manual_table_data),
                              Len(manual_table_data[1])))

\* ManualInputManager._go_to_cell, bound to the arrow keys of the entry box:
\* (drow, dcol) is the step of the key.
go_to_cell(drow, dcol) ==
  /\ cell_text_entry.made
  /\ manual_mode_active
  /\ save_and_go_to(bounded_cell(current_cell[1] + drow,
                                 current_cell[2] + dcol,
                                 Len(manual_table_data),
                                 Len(manual_table_data[1])))

ArrowKeys == {<<0 - 1, 0>>, <<1, 0>>, <<0, 0 - 1>>, <<0, 1>>}

\* ManualInputManager._store_current_page_values ("Store Page Values")
manual_store_current_page_values ==
  /\ cell_text_entry.made
  /\ manual_mode_active
  /\ LET s == saved_and_stored(TRUE)
     IN /\ manual_table_data' = s.manual
        /\ all_pages_manual_data' = s.stored
        /\ table_data' = s.table
        /\ table_data_rows' = s.rows
        /\ manual_data_shared' = s.shared
  /\ UNCHANGED <<manual_mode_active, current_cell, cell_coordinates,
                 cell_text_entry, canvas_button_1>>
  /\ UNCHANGED <<sessionVars, pdf_pages, text_page, extraction_mode,
                 page_table, mergeVars, lineVars, orientVars, config_file,
                 csv_file>>

\* ManualInputManager._complete_manual_entry ("Save & Exit Manual Mode"):
\* app.table_data becomes the list manual_table_data.
complete_manual_entry ==
  /\ cell_text_entry.made
  /\ manual_mode_active
  /\ LET s == saved_and_stored(TRUE)
     IN /\ manual_table_data' = s.manual
        /\ all_pages_manual_data' = s.stored
        /\ table_data' = s.manual
        /\ table_data_rows' =
             [j \in 1..Len(s.manual) |->
                IF s.shared = {} THEN <<j>>
                ELSE <<CHOOSE p \in s.shared : TRUE, j>>]
        /\ manual_data_shared' = s.shared
  /\ manual_mode_active' = FALSE
  /\ cell_text_entry' = NoEntry
  /\ canvas_button_1' = "main_area"
  /\ UNCHANGED <<current_cell, cell_coordinates>>
  /\ UNCHANGED <<sessionVars, pdf_pages, text_page, extraction_mode,
                 page_table, mergeVars, lineVars, orientVars, config_file,
                 csv_file>>

\* The grid of a marked page in ManualInputManager.extract_all_marked_pages:
\* the stored grid, or an empty one of the size its markers give.
manual_page_table(md, pm, page) ==
  IF page \in DOMAIN md THEN md[page]
  ELSE LET ncols == Len(pm[page].columns)
           nrows == Len(pm[page].rows)
       IN empty_table(IF nrows > 1 THEN nrows - 1 ELSE 1,
                      IF ncols > 1 THEN ncols - 1 ELSE 1)

\* The list objects of the rows "merged.extend(table)" puts into the merged
\* grid: the rows of the stored grids themselves.
RECURSIVE extended_rows(_, _, _)
extended_rows(md, pm, order) ==
  IF order = <<>> THEN <<>>
  ELSE LET page == Head(order)
       IN [j \in 1..Len(manual_page_table(md, pm, page)) |->
             IF page \in DOMAIN md THEN <<page, j>> ELSE <<>>]
          \o extended_rows(md, pm, Tail(order))

\* ManualInputManager.extract_all_marked_pages ("Extract All Marked Pages"),
\* options being the reply to the merge and transpose dialog.
extract_all_marked_pages(options) ==
  /\ cell_text_entry.made
  /\ pdf_document
  /\ DOMAIN page_markers # {}
  /\ LET grid == saved_cell_content(manual_table_data, manual_mode_active,
                                    cell_text_entry, current_cell)
         \* all_pages_manual_data[current_page] = manual_table_data
         md == stored_grid(shared_grids(all_pages_manual_data,
                                        manual_data_shared, grid),
                           current_page, grid)
         written == shared_rows(table_data, table_data_rows,
                                manual_data_shared, grid)
         tags == [i \in 1..Len(table_data_rows) |->
                    LET tag == table_data_rows[i]
                    IN IF Len(tag) = 1 THEN <<current_page, tag[1]>>
                       ELSE IF Len(tag) = 2 /\ tag[1] = current_page
                                 /\ current_page \notin manual_data_shared
                            THEN <<>>
                            ELSE tag]
         order == marked_pages(CHOOSE keys \in KeyOrders(DOMAIN page_markers) :
                                 TRUE)
         tables == [k \in 1..Len(order) |->
                      manual_page_table(md, page_markers, order[k])]
         merged == IF options.merge_mode = "vertical"
                   THEN merge_tables_vertically(tables)
                   ELSE merge_tables_horizontally(tables)
     IN /\ manual_table_data' = grid
        /\ all_pages_manual_data' = md
        /\ manual_data_shared' = manual_data_shared \cup {current_page}
        /\ IF ~options.ok
           THEN /\ table_data' = written
                /\ table_data_rows' = tags
                /\ UNCHANGED <<manual_mode_active, cell_text_entry,
                               canvas_button_1>>
           ELSE /\ table_data' = IF options.transpose THEN transposed(merged)
                                 ELSE merged
                /\ table_data_rows' =
                     IF options.merge_mode = "vertical" /\ ~options.transpose
                     THEN extended_rows(md, page_markers, order)
                     ELSE <<>>
                /\ manual_mode_active' = FALSE
                /\ cell_text_entry' = NoEntry
                /\ canvas_button_1' = "main_area"
  /\ UNCHANGED <<current_cell, cell_coordinates>>
  /\ UNCHANGED <<sessionVars, pdf_pages, text_page, extraction_mode,
                 page_table, mergeVars, lineVars, orientVars, config_file,
                 csv_file>>

\* on_tab_selected of the toolbar: the tab chosen is tab.
on_tab_selected(tab) ==
  /\ IF tab # "Manual Input" /\ manual_mode_active
     THEN /\ exit_manual_mode_and_store_data
          /\ selection_mode' = IF tab # "Edit" /\ selection_mode # "none"
                               THEN "none" ELSE selection_mode
     ELSE IF tab # "Edit" /\ selection_mode # "none"
     THEN /\ selection_mode' = "none"
          /\ UNCHANGED <<table_data, all_pages_manual_data, manualVars>>
     ELSE IF /\ tab = "Manual Input"
             /\ column_markers # <<>>
             /\ row_markers # <<>>
             /\ ~manual_mode_active
             /\ pdf_document
     THEN toggle_manual_mode
     ELSE UNCHANGED <<selection_mode, table_data, all_pages_manual_data,
                      manualVars>>
  /\ UNCHANGED <<pdf_document, total_pages, current_page, zoom_factor,
                 column_markers, row_markers, marker_history, page_markers,
                 markers_shared>>
  /\ UNCHANGED <<pdf_pages, text_page, extraction_mode, page_table, mergeVars,
                 lineVars, orientVars, config_file, csv_file>>

Tabs == {"File", "Edit", "Manual Input"}

\* The session of this part: a document of NumPages pages, the first page
\* shown with markers on both axes, the second marked or not, and for the
\* second page no grid or the grid LoadedGrid that load_all_page_markers read
\* from a file.
ManualColumns == {<<2>>, <<0, 2>>, <<0, 2, 4>>}
ManualRows == {<<0, 2>>}
ManualRecord == [columns |-> <<0, 2, 4>>, rows |-> <<0, 2>>]
LoadedGrid == << <<ThreeLines, <<"x">> >> >>
ManualTexts == {<<"a">>}
ClickPlaces == {1, 3}

InitManual ==
  /\ pdf_document = TRUE
  /\ total_pages = NumPages
  /\ current_page = 0
  /\ zoom_factor = <<1000, 0>>
  /\ column_markers \in ManualColumns
  /\ row_markers \in ManualRows
  /\ selection_mode = "none"
  /\ marker_history = <<>>
  /\ page_markers \in {NoPageMarkers, [p \in {1} |-> ManualRecord]}
  /\ markers_shared = FALSE
  /\ pdf_pages = BlankPages(NumPages)
  /\ text_page = <<>>
  /\ extraction_mode = "unset"
  /\ table_data = <<>>
  /\ page_table = <<>>
  /\ all_tables = <<>>
  /\ merged_table = <<>>
  /\ NoDetection
  /\ original_table_data = <<>>
  /\ all_pages_manual_data \in {NoManualData, [p \in {1} |-> LoadedGrid]}
  /\ config_file = NoConfig
  /\ csv_file = <<>>
  /\ FreshManualInput

NextManual ==
  \/ toggle_manual_mode
  \/ \E tab \in Tabs : on_tab_selected(tab)
  \/ \E x \in ClickPlaces : canvas_button_1_pressed(x, 1)
  \/ \E text \in ManualTexts : entry_edited(text)
  \/ go_to_next_cell
  \/ go_to_previous_cell
  \/ save_and_advance
  \/ \E key \in ArrowKeys : go_to_cell(key[1], key[2])
  \/ manual_store_current_page_values
  \/ complete_manual_entry
  \/ \E options \in MultipageOptions : extract_all_marked_pages(options)
  \/ \E answer \in BOOLEAN : next_page(answer)
  \/ \E answer \in BOOLEAN : prev_page(answer)
  \/ force_text_orientation_correction
  \/ transpose_table

SpecManual == InitManual /\ [][NextManual]_vars

\* The bookkeeping of the shared lists agrees with the values: a row of
\* table_data that is a row of a stored grid or of manual_table_data has its
\* cells, and a stored grid that is manual_table_data is equal to it.
SharedListsAgree ==
  /\ \A i \in 1..Len(table_data_rows) :
       LET tag == table_data_rows[i]
       IN /\ Len(tag) = 1 => /\ tag[1] <= Len(manual_table_data)
                             /\ table_data[i] = manual_table_data[tag[1]]
          /\ Len(tag) = 2 => /\ tag[1] \in DOMAIN all_pages_manual_data
                             /\ table_data[i]
                                  = all_pages_manual_data[tag[1]][tag[2]]
  /\ Len(table_data_rows) <= Len(table_data)
  /\ \A p \in manual_data_shared :
       /\ p \in DOMAIN all_pages_manual_data
       /\ all_pages_manual_data[p] = manual_table_data
  /\ Cardinality(manual_data_shared) <= 1

\* The stored grid of page p is put or changed by the step.
StoredGridChanges(p) ==
  /\ p \in DOMAIN all_pages_manual_data'
  /\ \/ p \notin DOMAIN all_pages_manual_data
     \/ all_pages_manual_data'[p] # all_pages_manual_data[p]

\* The steps that store the grid of the current page: Store Page Values, Save
\* & Exit, toggling manual mode off, leaving the Manual Input tab or the
\* page while manual mode is active, and Extract All Marked Pages.
StoreStep ==
  \/ manual_store_current_page_values
  \/ complete_manual_entry
  \/ manual_mode_active /\ toggle_manual_mode
  \/ manual_mode_active /\ \E tab \in Tabs : on_tab_selected(tab)
  \/ manual_mode_active /\ \E answer \in BOOLEAN : next_page(answer)
  \/ manual_mode_active /\ \E answer \in BOOLEAN : prev_page(answer)
  \/ \E options \in MultipageOptions : extract_all_marked_pages(options)

\* C36: the stored grid of a page p changes only in a step that stores the
\* grid of the current page p; typing after manual mode was entered again
\* and the operations on table_data after an extraction of the marked pages
\* (forced correction, transposition) never change it.
C36_StoredGridOnlyStored ==
  [][\A p \in Pages :
       StoredGridChanges(p) => (p = current_page /\ StoreStep)]_vars

\* C37: when next_page or prev_page turns the page while manual mode is
\* active, the grid in progress with the text of the entry box in its
\* current cell is stored under the page that is left, manual mode is
\* inactive afterwards, the page has changed, and nothing is stored or
\* changed under the page arrived at.
C37_NavigationStoresGrid ==
  [][(/\ manual_mode_active
      /\ \E answer \in BOOLEAN : next_page(answer) \/ prev_page(answer))
     => /\ current_page \in DOMAIN all_pages_manual_data'
        /\ all_pages_manual_data'[current_page]
             = [manual_table_data EXCEPT
                  ![current_cell[1] + 1][current_cell[2] + 1] =
                     cell_text_entry.text]
        /\ ~manual_mode_active'
        /\ current_page' # current_page
        /\ IF current_page' \in DOMAIN all_pages_manual_data
           THEN all_pages_manual_data'[current_page']
                  = all_pages_manual_data[current_page']
           ELSE current_page' \notin DOMAIN all_pages_manual_data'
    ]_vars

\* The second page is shown, manual mode is inactive and its entry box
\* gone, and the first page holds a stored grid with the typed text while
\* nothing is stored for the second.
C37_Witness ==
  /\ current_page = 1
  /\ ~manual_mode_active
  /\ ~cell_text_entry.made
  /\ DOMAIN all_pages_manual_data = {0}
  /\ all_pages_manual_data[0] = << << <<"a">>, <<>> >> >>
  /\ manual_table_data = all_pages_manual_data[0]

\* ------------------------------------- marker clicks and manual mode
\* The same session without stored grids and without typing, with the
\* drawing modes of the Edit tab and clicks on both axes.
InitClicks ==
  /\ pdf_document = TRUE
  /\ total_pages = NumPages
  /\ current_page = 0
  /\ zoom_factor = <<1000, 0>>
  /\ column_markers \in ManualColumns
  /\ row_markers \in ManualRows
  /\ selection_mode = "none"
  /\ marker_history = <<>>
  /\ page_markers = NoPageMarkers
  /\ markers_shared = FALSE
  /\ pdf_pages = BlankPages(NumPages)
  /\ text_page = <<>>
  /\ extraction_mode = "unset"
  /\ table_data = <<>>
  /\ page_table = <<>>
  /\ all_tables = <<>>
  /\ merged_table = <<>>
  /\ NoDetection
  /\ FreshManagers

NextClicks ==
  \/ toggle_manual_mode
  \/ \E tab \in Tabs : on_tab_selected(tab)
  \/ \E mode \in {"column", "row"} : set_selection_mode(mode)
  \/ \E x \in ClickPlaces, y \in ClickPlaces : canvas_button_1_pressed(x, y)
  \/ complete_manual_entry
  \/ \E answer \in BOOLEAN : next_page(answer)

SpecClicks == InitClicks /\ [][NextClicks]_vars

\* C38: whenever manual mode is inactive, a PDF is loaded and the selection
\* mode is 'column' or 'row', a click on the canvas at a coordinate without
\* a marker of that axis adds the marker, also after toggle_manual_mode was
\* refused and after every exit from manual mode. (The history is short of
\* the bound MaxHist, which the model puts on the clicks.)
C38_ClickAddsMarker ==
  (/\ ~manual_mode_active
   /\ pdf_document
   /\ selection_mode \in {"column", "row"}
   /\ Len(marker_history) < MaxHist)
  => \A x \in ClickPlaces, y \in ClickPlaces :
       /\ (selection_mode = "column" /\ x \notin Range(column_markers))
            => ENABLED (/\ canvas_button_1_pressed(x, y)
                        /\ x \in Range(column_markers'))
       /\ (selection_mode = "row" /\ y \notin Range(row_markers))
            => ENABLED (/\ canvas_button_1_pressed(x, y)
                        /\ y \in Range(row_markers'))

\* ------------------------------------------------- marker order
\* C39: the working column and row markers are strictly ascending in every
\* state reached through clicks, apply_detected_lines, undo, clear_lines,
\* save_page_markers, navigation and zoom, and so are the lists of every
\* saved page record.
C39_MarkersAscending ==
  /\ IsStrictlyAscending(column_markers)
  /\ IsStrictlyAscending(row_markers)
  /\ \A p \in DOMAIN page_markers :
       /\ IsStrictlyAscending(page_markers[p].columns)
       /\ IsStrictlyAscending(page_markers[p].rows)

\* Two column markers clicked from right to left, in ascending order in
\* the working list.
C39_Witness ==
  /\ marker_history = <<[type |-> "column", value |-> 1],
                        [type |-> "column", value |-> 0]>>
  /\ column_markers = <<0, 1>>

\* ------------------------------------------------ cell navigation
\* Manual mode entered on a grid of two rows of three cells, nothing stored.
CellColumns == <<0, 2, 4, 6>>
CellRows == <<0, 2, 4>>
CellClicks == (0..7) \X (0..5)

InitCells ==
  /\ pdf_document = TRUE
  /\ total_pages = NumPages
  /\ current_page = 0
  /\ zoom_factor = <<1000, 0>>
  /\ column_markers = CellColumns
  /\ row_markers = CellRows
  /\ selection_mode = "none"
  /\ marker_history = <<>>
  /\ page_markers = NoPageMarkers
  /\ markers_shared = FALSE
  /\ pdf_pages = BlankPages(NumPages)
  /\ text_page = <<>>
  /\ extraction_mode = "unset"
  /\ table_data = <<>>
  /\ page_table = <<>>
  /\ all_tables = <<>>
  /\ merged_table = <<>>
  /\ NoDetection
  /\ FreshManagers

NextCells ==
  \/ toggle_manual_mode
  \/ \E place \in CellClicks : canvas_button_1_pressed(place[1], place[2])
  \/ go_to_next_cell
  \/ go_to_previous_cell
  \/ save_and_advance
  \/ \E key \in ArrowKeys : go_to_cell(key[1], key[2])
  \/ \E text \in ManualTexts : entry_edited(text)

SpecCells == InitCells /\ [][NextCells]_vars

\* The place of a cell in row-major order, and the cell at a place.
PlaceOf(cell, cols) == cell[1] * cols + cell[2]

CellAt(place, cols) == <<place \div cols, place % cols>>

\* C40: in manual mode the current cell is a valid index of the grid after
\* every step (next, previous, arrow keys, clicks); Next Cell moves to the
\* following cell in row-major order and from the last cell to (0, 0);
\* Previous Cell is its exact inverse.
C40_CellNavigation ==
  [][LET rows == Len(manual_table_data')
         cols == IF rows > 0 THEN Len(manual_table_data'[1]) ELSE 0
     IN /\ manual_mode_active'
           => /\ 0 <= current_cell'[1] /\ current_cell'[1] < rows
              /\ 0 <= current_cell'[2] /\ current_cell'[2] < cols
        /\ go_to_next_cell
           => current_cell' = CellAt((PlaceOf(current_cell, cols) + 1)
                                       % (rows * cols), cols)
        /\ go_to_previous_cell
           => current_cell = CellAt((PlaceOf(current_cell', cols) + 1)
                                      % (rows * cols), cols)
    ]_vars

\* The text typed into the last cell was saved and the first cell is the
\* current one.
C40_Witness ==
  /\ manual_mode_active
  /\ current_cell = <<0, 0>>
  /\ manual_table_data[2][3] = <<"a">>
  /\ \A c \in 1..3 : manual_table_data[1][c] = <<>>
  /\ \A c \in 1..2 : manual_table_data[2][c] = <<>>
  /\ cell_text_entry.text = <<>>

====
